---- MODULE Spec2Model ----
(***************************************************************************)
(* State-machine model of RealtimeAIService                                *)
(* (src/src/app/realtime_ai/service.py): the service status, the bounded   *)
(* results queue, the frame loop task(s) and the start/stop calls, cut at  *)
(* the awaits where the asyncio event loop can switch tasks.  The stream    *)
(* source is a finite source like FileStreamProvider, whose iterator ends  *)
(* at the end of the file and catches its own read errors; the detector    *)
(* loads and detects with real suspensions, like YOLOv11Detector.  An      *)
(* `await self._set_status(...)` is a point where an async status hook can *)
(* suspend the caller.                                                     *)
(***************************************************************************)
EXTENDS Naturals, Sequences, FiniteSets, TLC

\* ---------------------------------------------------------------- bounds
MaxFrames == 3      \* longest stream of the general configurations
MaxBuffer == 2      \* largest result_buffer_size
MaxSkip == 1        \* largest skip_frames
NumCallers == 2     \* clients that call start_detection / stop_detection
NumTasks == 2       \* frame loop tasks that can exist at one time
NumDevices == 2     \* accelerator devices of the multi-GPU detector
NumCalls == 2       \* detect_frame calls that can be in flight at one time
MaxDispatches == 2  \* detect_frame calls issued in one behaviour
MaxBatch == 2       \* longest detect_batch input
NumIterators == 1   \* results iterators a consumer opens
MaxRetry == 3       \* largest StreamConfig.retry_attempts
MaxReads == 4       \* frame reads of the live-stream provider in one behaviour

\* ------------------------------------------------------ program constants
ErrorThreshold == 10        \* `if self._error_count > 10`
DefaultMaxFps == 30         \* ServiceConfig.__post_init__ "max_fps"
DefaultStreamId == 0        \* detect_frame(..., stream_id: int = 0)
DefaultRetryAttempts == 3   \* StreamConfig.retry_attempts: int = 3
DefaultSkipFrames == 0      \* ServiceConfig.__post_init__ "skip_frames"
DefaultBatchSize == 1       \* ServiceConfig.__post_init__ "batch_size"
DefaultBufferSize == 100    \* ServiceConfig.__post_init__ "result_buffer_size"

\* A stream long enough for the error threshold to be exceeded with a frame
\* still left to read.
LongFrames == ErrorThreshold + 2

Callers == 1..NumCallers
Tasks == 1..NumTasks
Devices == 0..(NumDevices - 1)
Calls == 1..NumCalls
StreamIds == 0..NumDevices
Iterators == 1..NumIterators

VARIABLES
    serial,                 \* TRUE: the client awaits each call before the next
    result_buffer_size,     \* processing_config["result_buffer_size"]
    skip_frames,            \* processing_config["skip_frames"]
    max_fps,                \* processing_config["max_fps"]
    stream_len,             \* frames the (file) source holds
    status,                 \* self.status
    is_running,             \* self._is_running
    is_connected,           \* stream_provider._is_connected
    is_loaded,              \* detector._is_loaded
    results_queue,          \* self._results_queue: frame ids of the results
    frame_count,            \* self._frame_count
    processed_frame_count,  \* self._processed_frame_count
    error_count,            \* self._error_count
    detection_task,         \* self._detection_task (0: None)
    task,                   \* the frame loop tasks
    call,                   \* the start/stop calls in progress
    stream_pos,             \* frames read from the source since connect
    taken,                  \* history: last frame id a consumer took in this run
    run_failures,           \* history: detector failures in this run
    last_op,                \* history: the last step, as seen by the client
    raised,                 \* what the last start call raised, and where
    enable_multi_gpu,       \* detector.enable_multi_gpu
    load_balancing,         \* detector.load_balancing
    gpu_devices,            \* detector.gpu_devices: device ids, in list order
    inference_counts,       \* detector.inference_counts
    device_locks,           \* detector.device_locks: the call that holds each lock (0: free)
    inf,                    \* the detect_frame calls
    batch,                  \* the detect_batch call
    dispatched,             \* detect_frame calls issued so far
    iter,                   \* the results iterators: position, last frame id yielded
    latest,                 \* the get_latest_result call: position, value returned
    detectors,              \* DetectorFactory._detectors: tag -> registered class
    providers,              \* StreamProviderFactory._providers: tag -> registered class
    made,                   \* the last create call of a factory and its outcome
    built,                  \* the last construction of a service and its outcome
    retry_attempts,         \* RTSPStreamProvider.config.retry_attempts
    retry_count,            \* get_frame_iterator: retry_count
    reader,                 \* get_frame_iterator: position, and why it ended
    reads                   \* history: reads that gave a frame, failed, failed in a row

config == <<serial, result_buffer_size, skip_frames, max_fps, stream_len>>
counters == <<frame_count, processed_frame_count, error_count>>
vars == <<serial, result_buffer_size, skip_frames, max_fps, stream_len,
          status, is_running, is_connected, is_loaded, results_queue,
          frame_count, processed_frame_count, error_count, detection_task,
          task, call, stream_pos, taken, run_failures, last_op, raised,
          enable_multi_gpu, load_balancing, gpu_devices, inference_counts,
          device_locks, inf, batch, dispatched, iter, latest,
          detectors, providers, made, built,
          retry_attempts, retry_count, reader, reads>>
rtsp == <<retry_attempts, retry_count, reader, reads>>
factories == <<detectors, providers, made, built>>
detector == <<enable_multi_gpu, load_balancing, gpu_devices, inference_counts,
              device_locks, inf, batch, dispatched>>
service == <<serial, result_buffer_size, skip_frames, max_fps, stream_len,
             status, is_running, is_connected, results_queue,
             frame_count, processed_frame_count, error_count, detection_task,
             task, call, stream_pos, taken, run_failures, last_op, raised, iter, latest>>

NoTask == [pc |-> "none", fid |-> 0, skipc |-> 0, exit |-> "none"]
NoCall == [pc |-> "idle", t |-> 0, then |-> "return"]
NoError == [at |-> "none", exc |-> "none"]
NoInf == [pc |-> "idle", dev |-> 0, fid |-> 0, stream |-> 0, item |-> 0, ok |-> FALSE]
NoIter == [pc |-> "closed", last |-> 0]
NoLatest == [pc |-> "idle", value |-> 0]
NoClass == "none"
NoReader == [pc |-> "idle", why |-> "none"]
NoReads == [ok |-> 0, failed |-> 0, run |-> 0]
NoMade == [call |-> "none", tag |-> "none", url |-> <<>>, protocol |-> "none",
           out |-> "none", cls |-> NoClass, names |-> "none", lists |-> {}]
NoBuilt == [call |-> "none", url |-> <<>>, given |-> <<>>, system |-> FALSE,
            out |-> "none", missing |-> "none", status |-> "none", settings |-> <<>>]
NoBatch == [pc |-> "idle", frames |-> <<>>, frame_ids |-> <<>>, oks |-> <<>>, results |-> <<>>]

\* Tags of the factories: StreamProtocol and (one of) DetectorType; both are
\* str enums and either dict takes any hashable key.
ProtocolTags == {"rtsp", "rtmp", "http", "https", "file"}
DetectorTags == {"yolov11n"}
FactoryTags == ProtocolTags \cup DetectorTags

\* `_detectors = {}`, `_providers = {}`
EmptyRegistry == [t \in {} |-> NoClass]

\* ------------------------------------------------------------- the queue
\* asyncio.Queue(maxsize): maxsize <= 0 means the queue is never full.
QueueFull(q, maxsize) == maxsize > 0 /\ Len(q) >= maxsize

GetLeavesItem(q) == q

\* asyncio.Queue.get / get_nowait: the item at the head leaves the queue.
GetNowait(q) == Tail(q)

PutNowait(q, r) == Append(q, r)

PushNothing(q, r, maxsize) == q

PushDropNewest(q, r, maxsize) ==
    IF ~QueueFull(q, maxsize) THEN PutNowait(q, r)
    ELSE PutNowait(SubSeq(q, 1, Len(q) - 1), r)

\* put_nowait; on QueueFull: get_nowait (the oldest) and put_nowait again.
PushResult(q, r, maxsize) ==
    IF ~QueueFull(q, maxsize) THEN PutNowait(q, r)
    ELSE PutNowait(GetNowait(q), r)

KeepQueue(q) == q

PutAwaitsRoom(q, maxsize) == QueueFull(q, maxsize)

\* The push is put_nowait, which raises QueueFull on a full queue instead of
\* waiting, and the handler makes room itself: it never waits for a consumer.
PushWaits(q, maxsize) == FALSE

\* start_detection: `while not empty(): get_nowait()`.
DrainQueue(q) == <<>>

CounterKept(n) == n

\* start_detection: `self._frame_count = 0` (and the two other counters).
ResetCounter(n) == 0

\* What a run that counted frames, results and errors leaves to the next start.
LeftBehind ==
    /\ frame_count > 0
    /\ processed_frame_count > 0
    /\ error_count > 0
    /\ results_queue # <<>>

\* ------------------------------------------------------------------ hooks
\* on_detection_complete, on_error and on_status_change: a call of a hook
\* returns (as does the test of a hook that is not set) or raises.
HookOutcomes == {"returned", "raised"}

HookEscapesWhenRaised(h) == h = "raised"

\* Each hook is called inside `try: ... except Exception as e: logger.error`,
\* so what it raises goes no further.
HookEscapes(h) == FALSE

\* History: the step called a hook that raised.  The outcome of
\* on_status_change is drawn at the change to RUNNING, the one made while a
\* frame loop is being spawned; at the other changes the call is wrapped the
\* same way and its outcome leaves no trace in the state.
HookSeen(h, otherwise) == IF h = "raised" THEN "hook_raised" ELSE otherwise

\* --------------------------------------------------------- loop decisions
BreakWhenRunning(running) == running

\* `if not self._is_running: break`
LoopShouldBreak(running) == ~running

TooManyErrorsAtThreshold(n) == n >= ErrorThreshold

TooManyErrorsLate(n) == n > ErrorThreshold + 1

\* `if self._error_count > 10: break`
TooManyErrors(n) == n > ErrorThreshold

SkipWithoutReset(skip, counter) ==
    IF skip > 0
    THEN [skip |-> counter + 1 <= skip, counter |-> counter + 1]
    ELSE [skip |-> FALSE, counter |-> counter]

\* `if self.skip_frames > 0: counter += 1; if counter <= skip_frames: continue;
\*  counter = 0`
SkipDecision(skip, counter) ==
    IF skip > 0
    THEN IF counter + 1 <= skip
         THEN [skip |-> TRUE, counter |-> counter + 1]
         ELSE [skip |-> FALSE, counter |-> 0]
    ELSE [skip |-> FALSE, counter |-> counter]

IteratorEndsEarly(connected, pos, len) == ~connected \/ pos + 1 >= len

\* FileStreamProvider.get_frame_iterator: `while self._is_connected`, and a
\* break when get_frame() returns None at the end of a file that does not loop.
IteratorEnds(connected, pos, len) == ~connected \/ pos >= len

TaskLive(tk) == tk.pc \notin {"none", "done"}

\* ------------------------------------------------------------------ Init
Configs ==
    {[len |-> n, buf |-> b, skip |-> s, fps |-> f] :
        n \in 0..MaxFrames, b \in 0..MaxBuffer, s \in 0..MaxSkip,
        f \in {0, DefaultMaxFps}}
    \cup {[len |-> LongFrames, buf |-> 1, skip |-> 0, fps |-> 0]}

InitState ==
    /\ status = "idle"
    /\ is_running = FALSE
    /\ is_connected = FALSE
    /\ is_loaded = FALSE
    /\ results_queue = <<>>
    /\ frame_count = 0
    /\ processed_frame_count = 0
    /\ error_count = 0
    /\ detection_task = 0
    /\ task = [t \in Tasks |-> NoTask]
    /\ call = [c \in Callers |-> NoCall]
    /\ stream_pos = 0
    /\ taken = 0
    /\ run_failures = 0
    /\ last_op = "other"
    /\ raised = NoError
    /\ inference_counts = [d \in Devices |-> 0]
    /\ device_locks = [d \in Devices |-> 0]
    /\ inf = [i \in Calls |-> NoInf]
    /\ batch = NoBatch
    /\ dispatched = 0
    /\ iter = [i \in Iterators |-> NoIter]
    /\ latest = NoLatest
    /\ detectors = EmptyRegistry
    /\ providers = EmptyRegistry
    /\ made = NoMade
    /\ built = NoBuilt
    /\ retry_count = 0
    /\ reader = NoReader
    /\ reads = NoReads

\* model_config.get("enable_multi_gpu", True), get("load_balancing", True),
\* get("gpu_devices", None), with no GPU found by get_multi_gpu_devices().
DefaultDetectorConfig ==
    /\ enable_multi_gpu = TRUE
    /\ load_balancing = TRUE
    /\ gpu_devices = <<>>

Init ==
    /\ serial = TRUE
    /\ retry_attempts = DefaultRetryAttempts
    /\ DefaultDetectorConfig
    /\ \E cfg \in Configs :
        /\ stream_len = cfg.len
        /\ result_buffer_size = cfg.buf
        /\ skip_frames = cfg.skip
        /\ max_fps = cfg.fps
    /\ InitState

InitOverlap ==
    /\ serial = FALSE
    /\ retry_attempts = DefaultRetryAttempts
    /\ DefaultDetectorConfig
    /\ \E cfg \in Configs :
        /\ cfg.len <= MaxFrames - 1
        /\ cfg.fps > 0 => cfg.len <= MaxFrames - 2
        /\ cfg.skip = 0
        /\ cfg.buf = 1
        /\ stream_len = cfg.len
        /\ result_buffer_size = cfg.buf
        /\ skip_frames = cfg.skip
        /\ max_fps = cfg.fps
    /\ InitState

\* ------------------------------------------------------------ exceptions
\* core/exceptions.py: the base class of each exception class.
ExcParent(cls) ==
    CASE cls \in {"StreamConnectionException", "StreamTimeoutException"} -> "StreamException"
      [] cls \in {"ModelLoadException", "ModelInferenceException"} -> "DetectionException"
      [] cls \in {"StreamException", "DetectionException", "ConfigurationException"}
            -> "RealtimeAIException"
      [] OTHER -> "Exception"

\* cls.__init__ called with (given) or without an error_code keyword: every
\* subclass passes `error_code=<its own>, **kwargs` to its base, and only
\* RealtimeAIException.__init__ declares error_code; a subclass that was given
\* one passes two, which Python refuses with a TypeError.
RECURSIVE InitRaisesTypeError(_, _)
InitRaisesTypeError(cls, given) ==
    IF cls = "RealtimeAIException" THEN FALSE
    ELSE IF given THEN TRUE
    ELSE InitRaisesTypeError(ExcParent(cls), TRUE)

\* `raise cls(...)`: the exception that is in fact raised (the interpreter
\* reports the refused call as a TypeError, or as a KeyError when it is made
\* inside an exception handler).
Construct(cls) == IF InitRaisesTypeError(cls, FALSE) THEN "TypeError" ELSE cls

ConnectionErrors == {"StreamConnectionException", "StreamTimeoutException"}

\* connect() of the providers: the failure is raised inside `try`, and the
\* handler re-raises a connection error as it is and anything else as a new
\* StreamConnectionException.
ConnectRaises(kind) ==
    IF Construct(kind) \in ConnectionErrors THEN Construct(kind)
    ELSE Construct("StreamConnectionException")

\* load_model(): `except Exception as e: raise ModelLoadException(...)`.
LoadRaises == Construct("ModelLoadException")

\* A serial client has no call in progress when it makes the next one.
CanCall(c) ==
    /\ call[c].pc = "idle"
    /\ serial => \A d \in Callers : call[d].pc = "idle"

\* -------------------------------------------------------- start_detection
\* Connect if not connected, clear the queue, reset the counters, create the
\* loop task, set the running flag, status RUNNING: no await switches tasks
\* in between (connect() of the providers never suspends).
FreeSlots == {t \in Tasks : ~TaskLive(task[t])
                            /\ \A d \in Callers : ~(call[d].pc = "stop_wait" /\ call[d].t = t)}

\* connect() raised: status ERROR, and the caller gets a RealtimeAIException
\* whose message is that of the exception connect() raised.
StartConnectFailed(c) ==
    /\ ~is_connected
    /\ status' = "error"
    /\ call' = [call EXCEPT ![c] = NoCall]
    /\ \E kind \in ConnectionErrors :
          raised' = [at |-> "connect", exc |-> ConnectRaises(kind)]
    /\ last_op' = "other"
    /\ UNCHANGED <<config, detector, factories, rtsp, iter, latest, is_running, is_connected, is_loaded, results_queue,
                   counters, detection_task, task, stream_pos, taken, run_failures>>

StartSpawn(c) ==
    /\ FreeSlots # {}
    /\ LET t == CHOOSE x \in FreeSlots : \A y \in FreeSlots : x <= y IN
        /\ task' = [task EXCEPT ![t] = [pc |-> "iter", fid |-> 0, skipc |-> 0, exit |-> "none"]]
        /\ detection_task' = t
    /\ stream_pos' = IF is_connected THEN stream_pos ELSE 0
    /\ is_connected' = TRUE
    /\ results_queue' = DrainQueue(results_queue)
    /\ frame_count' = ResetCounter(frame_count)
    /\ processed_frame_count' = ResetCounter(processed_frame_count)
    /\ error_count' = ResetCounter(error_count)
    /\ is_running' = TRUE
    /\ call' = [call EXCEPT ![c] = NoCall]
    /\ taken' = 0
    /\ run_failures' = 0
    /\ \E h \in HookOutcomes :
        /\ last_op' = HookSeen(h, IF LeftBehind THEN "start_over" ELSE "other")
        /\ IF HookEscapes(h)
           THEN /\ status' = "error"
                /\ raised' = [at |-> "hook", exc |-> "RealtimeAIException"]
           ELSE /\ status' = "running"
                /\ UNCHANGED raised
    /\ UNCHANGED <<config, detector, factories, rtsp, iter, latest, is_loaded>>

StartConnectStage(c) == StartConnectFailed(c) \/ StartSpawn(c)

StartGuardNone(s) == FALSE

\* `if self.status == ServiceStatus.RUNNING: return`
StartIsNoop(s) == s = "running"

\* `if self.status == RUNNING: return`, else _set_status(STARTING).
StartDetection(c) ==
    /\ CanCall(c)
    /\ last_op' = IF status = "running" THEN "start_running" ELSE "other"
    /\ raised' = NoError
    /\ IF StartIsNoop(status)
       THEN UNCHANGED <<status, call>>
       ELSE /\ status' = "starting"
            /\ call' = [call EXCEPT ![c] = [pc |-> "start_load", t |-> 0, then |-> "return"]]
    /\ UNCHANGED <<config, detector, factories, rtsp, iter, latest, is_running, is_connected, is_loaded, results_queue,
                   counters, detection_task, task, stream_pos, taken, run_failures>>

\* `if not self.detector.is_loaded: await load_model()`
StartLoadModel(c) ==
    /\ call[c].pc = "start_load"
    /\ IF is_loaded
       THEN StartConnectStage(c)
       ELSE /\ call' = [call EXCEPT ![c].pc = "start_loading"]
            /\ last_op' = "other"
            /\ UNCHANGED <<config, detector, factories, rtsp, iter, latest, raised, status, is_running, is_connected, is_loaded,
                           results_queue, counters, detection_task, task,
                           stream_pos, taken, run_failures>>

\* The outcomes of load_model(): the model is loaded; or (the multi-GPU
\* detector with no device that took the model) it returns False and leaves
\* _is_loaded as it was; or it raises.
LoadOutcomes == {"loaded", "reported_failure", "raised"}

\* load_model() ends; start_detection does not look at the value it returns
\* and goes on to warm_up(); an exception sets status ERROR and is re-raised.
StartModelLoaded(c) ==
    /\ call[c].pc = "start_loading"
    /\ last_op' = "other"
    /\ \E outcome \in LoadOutcomes :
        CASE outcome = "loaded" ->
               /\ is_loaded' = TRUE
               /\ call' = [call EXCEPT ![c].pc = "start_warm"]
               /\ UNCHANGED <<status, raised>>
          [] outcome = "reported_failure" ->
               /\ call' = [call EXCEPT ![c].pc = "start_warm"]
               /\ UNCHANGED <<status, raised, is_loaded>>
          [] outcome = "raised" ->
               /\ is_loaded' = FALSE
               /\ status' = "error"
               /\ call' = [call EXCEPT ![c] = NoCall]
               /\ raised' = [at |-> "load", exc |-> LoadRaises]
    /\ UNCHANGED <<config, detector, factories, rtsp, iter, latest, is_running, is_connected, results_queue, counters,
                   detection_task, task, stream_pos, taken, run_failures>>

\* warm_up(): `if not self.is_loaded: await self.load_model()`, else the dummy
\* inference has ended (its errors are ignored) and the connect stage follows.
StartWarmedUp(c) ==
    /\ call[c].pc = "start_warm"
    /\ IF ~is_loaded
       THEN /\ call' = [call EXCEPT ![c].pc = "start_warm_loading"]
            /\ last_op' = "other"
            /\ UNCHANGED <<config, detector, factories, rtsp, iter, latest, raised, status, is_running, is_connected, is_loaded,
                           results_queue, counters, detection_task, task,
                           stream_pos, taken, run_failures>>
       ELSE StartConnectStage(c)

\* The load_model() of warm_up() ends.  With the model loaded the dummy
\* inference runs (a suspension); with the model not loaded detect_frame
\* raises at once, warm_up() ignores it and the connect stage follows.
StartWarmLoaded(c) ==
    /\ call[c].pc = "start_warm_loading"
    /\ \E outcome \in LoadOutcomes :
        CASE outcome = "loaded" ->
               /\ is_loaded' = TRUE
               /\ call' = [call EXCEPT ![c].pc = "start_warm"]
               /\ last_op' = "other"
               /\ UNCHANGED <<config, detector, factories, rtsp, iter, latest, raised, status, is_running, is_connected,
                              results_queue, counters, detection_task, task,
                              stream_pos, taken, run_failures>>
          [] outcome = "reported_failure" ->
               IF is_loaded
               THEN /\ call' = [call EXCEPT ![c].pc = "start_warm"]
                    /\ last_op' = "other"
                    /\ UNCHANGED <<config, detector, factories, rtsp, iter, latest, raised, status, is_running, is_connected,
                                   is_loaded, results_queue, counters, detection_task,
                                   task, stream_pos, taken, run_failures>>
               ELSE StartConnectStage(c)
          [] outcome = "raised" ->
               /\ is_loaded' = FALSE
               /\ status' = "error"
               /\ call' = [call EXCEPT ![c] = NoCall]
               /\ raised' = [at |-> "load", exc |-> LoadRaises]
               /\ last_op' = "other"
               /\ UNCHANGED <<config, detector, factories, rtsp, iter, latest, is_running, is_connected, results_queue,
                              counters, detection_task, task, stream_pos, taken,
                              run_failures>>

\* --------------------------------------------------------- stop_detection
StopGuardNone(s) == FALSE

\* `if self.status != RUNNING: return`
StopIsNoop(s) == s # "running"

NeverCancel(dt, tk) == FALSE

\* `if self._detection_task and not self._detection_task.done()`
ShouldCancel(dt, tk) == dt # 0 /\ TaskLive(tk[dt])

\* _is_running = False; disconnect if connected; _set_status(IDLE).  The call
\* returns to the client, or to cleanup() when cleanup() made it.
StopFinishStage(c) ==
    /\ is_running' = FALSE
    /\ is_connected' = FALSE
    /\ status' = "idle"
    /\ call' = IF call[c].then = "unload"
               THEN [call EXCEPT ![c].pc = "cleanup_unload"]
               ELSE [call EXCEPT ![c] = NoCall]
    /\ last_op' = IF call[c].then = "unload" THEN "other" ELSE "stop_ret"
    /\ UNCHANGED <<config, detector, factories, rtsp, iter, latest, raised, is_loaded, results_queue, counters, detection_task,
                   stream_pos, taken, run_failures>>

StopDetection(c) ==
    /\ CanCall(c)
    /\ IF StopIsNoop(status)
       THEN /\ last_op' = IF last_op \in {"stop_ret", "stop_again"}
                          THEN "stop_again" ELSE "stop_ret"
            /\ UNCHANGED <<status, call>>
       ELSE /\ status' = "stopping"
            /\ call' = [call EXCEPT ![c] = [pc |-> "stop_cancel", t |-> 0, then |-> "return"]]
            /\ last_op' = "stop_call"
    /\ UNCHANGED <<config, detector, factories, rtsp, iter, latest, raised, is_running, is_connected, is_loaded, results_queue,
                   counters, detection_task, task, stream_pos, taken, run_failures>>

\* task.cancel() and `await self._detection_task`, or straight on when the
\* task is done.
StopCancelTask(c) ==
    /\ call[c].pc = "stop_cancel"
    /\ IF ShouldCancel(detection_task, task)
       THEN /\ task' = [task EXCEPT ![detection_task].pc = "cancelling"]
            /\ call' = [call EXCEPT ![c].pc = "stop_wait", ![c].t = detection_task]
            /\ last_op' = "other"
            /\ UNCHANGED <<config, detector, factories, rtsp, iter, latest, raised, status, is_running, is_connected, is_loaded,
                           results_queue, counters, detection_task, stream_pos,
                           taken, run_failures>>
       ELSE StopFinishStage(c) /\ UNCHANGED task

\* The awaited task has ended.
StopTaskAwaited(c) ==
    /\ call[c].pc = "stop_wait"
    /\ ~TaskLive(task[call[c].t])
    /\ StopFinishStage(c)
    /\ UNCHANGED task

\* ------------------------------------------------------- _detection_loop
\* The frame iterator ends (source disconnected or out of frames), or yields
\* a frame: running check, frame count, skip cadence, then the FPS sleep or
\* the detect_frame call.
LoopNextFrame(t) ==
    /\ task[t].pc = "iter"
    /\ last_op' = "other"
    /\ IF IteratorEnds(is_connected, stream_pos, stream_len)
       THEN /\ task' = [task EXCEPT ![t].pc = "done", ![t].exit = "eos"]
            /\ UNCHANGED <<stream_pos, frame_count>>
       ELSE /\ stream_pos' = stream_pos + 1
            /\ IF LoopShouldBreak(is_running)
               THEN /\ task' = [task EXCEPT ![t].pc = "done", ![t].exit = "flag"]
                    /\ UNCHANGED frame_count
               ELSE /\ frame_count' = frame_count + 1
                    /\ LET d == SkipDecision(skip_frames, task[t].skipc) IN
                       IF d.skip
                       THEN task' = [task EXCEPT ![t].skipc = d.counter]
                       ELSE \E sleep \in (IF max_fps > 0 THEN BOOLEAN ELSE {FALSE}) :
                              task' = [task EXCEPT
                                         ![t].skipc = d.counter,
                                         ![t].pc = IF sleep THEN "throttle" ELSE "detect",
                                         ![t].fid = frame_count + 1]
    /\ UNCHANGED <<config, detector, factories, rtsp, iter, latest, raised, status, is_running, is_connected, is_loaded,
                   results_queue, processed_frame_count, error_count,
                   detection_task, call, taken, run_failures>>

\* _control_fps slept; detect_frame(frame, self._frame_count) is called.
LoopThrottled(t) ==
    /\ task[t].pc = "throttle"
    /\ task' = [task EXCEPT ![t].pc = "detect", ![t].fid = frame_count]
    /\ last_op' = "other"
    /\ UNCHANGED <<config, detector, factories, rtsp, iter, latest, raised, status, is_running, is_connected, is_loaded,
                   results_queue, counters, detection_task, call, stream_pos,
                   taken, run_failures>>

\* detect_frame returned a result: count it, push it and call the
\* on_detection_complete hook, inside the try block of the frame.
LoopDetected(t) ==
    /\ task[t].pc = "detect"
    /\ is_loaded
    /\ ~PushWaits(results_queue, result_buffer_size)
    /\ processed_frame_count' = processed_frame_count + 1
    /\ results_queue' = PushResult(results_queue, task[t].fid, result_buffer_size)
    /\ \E h \in HookOutcomes :
        /\ last_op' = HookSeen(h, "other")
        /\ IF HookEscapes(h)
           THEN /\ error_count' = error_count + 1
                /\ task' = IF TooManyErrors(error_count + 1)
                           THEN [task EXCEPT ![t].pc = "done", ![t].exit = "errors"]
                           ELSE [task EXCEPT ![t].pc = "iter"]
           ELSE /\ UNCHANGED error_count
                /\ task' = [task EXCEPT ![t].pc = "iter"]
    /\ UNCHANGED <<config, detector, factories, rtsp, iter, latest, raised, status, is_running, is_connected, is_loaded,
                   frame_count, detection_task, call, stream_pos,
                   taken, run_failures>>

\* detect_frame raised: count the error, call the on_error hook, break past
\* the threshold.  What leaves the handler ends the loop with status ERROR.
LoopDetectFailed(t) ==
    /\ task[t].pc = "detect"
    /\ error_count' = error_count + 1
    /\ run_failures' = run_failures + 1
    /\ \E h \in HookOutcomes :
        /\ last_op' = HookSeen(h, "other")
        /\ IF HookEscapes(h)
           THEN /\ task' = [task EXCEPT ![t].pc = "done", ![t].exit = "crashed"]
                /\ status' = "error"
           ELSE /\ task' = IF TooManyErrors(error_count + 1)
                           THEN [task EXCEPT ![t].pc = "done", ![t].exit = "errors"]
                           ELSE [task EXCEPT ![t].pc = "iter"]
                /\ UNCHANGED status
    /\ UNCHANGED <<config, detector, factories, rtsp, iter, latest, raised, is_running, is_connected, is_loaded,
                   results_queue, frame_count, processed_frame_count,
                   detection_task, call, stream_pos, taken>>

\* CancelledError is thrown into the task at its await.
LoopCancelled(t) ==
    /\ task[t].pc = "cancelling"
    /\ task' = [task EXCEPT ![t].pc = "done", ![t].exit = "cancelled"]
    /\ last_op' = "other"
    /\ UNCHANGED <<config, detector, factories, rtsp, iter, latest, raised, status, is_running, is_connected, is_loaded,
                   results_queue, counters, detection_task, call, stream_pos,
                   taken, run_failures>>

\* ------------------------------------------------------------- consumers
\* get_latest_result: queue.get() under wait_for, with a result available.
GetLatestResult ==
    /\ results_queue # <<>>
    /\ taken' = Head(results_queue)
    /\ results_queue' = GetNowait(results_queue)
    /\ last_op' = "other"
    /\ UNCHANGED <<config, detector, factories, rtsp, iter, latest, raised, status, is_running, is_connected, is_loaded,
                   counters, detection_task, task, call, stream_pos, run_failures>>

\* get_results_iterator: one turn of `while running or not empty` that gets
\* a result.
ResultsIteratorNext ==
    /\ is_running \/ results_queue # <<>>
    /\ results_queue # <<>>
    /\ taken' = Head(results_queue)
    /\ results_queue' = GetNowait(results_queue)
    /\ last_op' = "other"
    /\ UNCHANGED <<config, detector, factories, rtsp, iter, latest, raised, status, is_running, is_connected, is_loaded,
                   counters, detection_task, task, call, stream_pos, run_failures>>

Next ==
    \/ \E c \in Callers : StartDetection(c)
    \/ \E c \in Callers : StartLoadModel(c)
    \/ \E c \in Callers : StartModelLoaded(c)
    \/ \E c \in Callers : StartWarmedUp(c)
    \/ \E c \in Callers : StartWarmLoaded(c)
    \/ \E c \in Callers : StopDetection(c)
    \/ \E c \in Callers : StopCancelTask(c)
    \/ \E c \in Callers : StopTaskAwaited(c)
    \/ \E t \in Tasks : LoopNextFrame(t)
    \/ \E t \in Tasks : LoopThrottled(t)
    \/ \E t \in Tasks : LoopDetected(t)
    \/ \E t \in Tasks : LoopDetectFailed(t)
    \/ \E t \in Tasks : LoopCancelled(t)
    \/ GetLatestResult
    \/ ResultsIteratorNext

Spec == Init /\ [][Next]_vars

SpecOverlap == InitOverlap /\ [][Next]_vars

\* -------------------------------------------------- get_results_iterator
\* The service with the consumers of get_results_iterator as processes: the
\* test of the `while`, the wait_for(queue.get(), 1.0) and the yield.
IteratorWhileRunning(running, q) == running

\* `while self._is_running or not self._results_queue.empty()`
IteratorContinues(running, q) == running \/ q # <<>>

\* The head of the loop: wait for a result, or leave the generator.
IteratorLoopHead(i) ==
    IF IteratorContinues(is_running, results_queue)
    THEN [iter EXCEPT ![i].pc = "waiting"]
    ELSE [iter EXCEPT ![i].pc = "ended"]

\* The consumer asks for the first result, or for the next one after a
\* yield: the generator runs from where it stands to the head of the loop.
IteratorNext(i) ==
    /\ iter[i].pc \in {"closed", "yielded"}
    /\ iter' = IteratorLoopHead(i)
    /\ last_op' = "other"
    /\ UNCHANGED <<config, detector, factories, rtsp, latest, raised, status, is_running, is_connected,
                   is_loaded, results_queue, counters, detection_task, task, call,
                   stream_pos, taken, run_failures>>

\* queue.get() returns a result, which is yielded.
IteratorGets(i) ==
    /\ iter[i].pc = "waiting"
    /\ results_queue # <<>>
    /\ iter' = [iter EXCEPT ![i] = [pc |-> "yielded", last |-> Head(results_queue)]]
    /\ taken' = Head(results_queue)
    /\ results_queue' = GetNowait(results_queue)
    /\ last_op' = "other"
    /\ UNCHANGED <<config, detector, factories, rtsp, latest, raised, status, is_running, is_connected,
                   is_loaded, counters, detection_task, task, call, stream_pos,
                   run_failures>>

\* wait_for times out on the empty queue: `continue`, the head of the loop.
IteratorTimesOut(i) ==
    /\ iter[i].pc = "waiting"
    /\ results_queue = <<>>
    /\ iter' = IteratorLoopHead(i)
    /\ last_op' = "other"
    /\ UNCHANGED <<config, detector, factories, rtsp, latest, raised, status, is_running, is_connected,
                   is_loaded, results_queue, counters, detection_task, task, call,
                   stream_pos, taken, run_failures>>

IteratorStep(i) == IteratorNext(i) \/ IteratorGets(i) \/ IteratorTimesOut(i)

\* ----------------------------------------------------- get_latest_result
\* The get_latest_result call as a process.  Value 0 stands for None (the
\* frame ids of results are positive).
LatestTimeoutRaises == [pc |-> "raised", value |-> 0]

\* `except asyncio.TimeoutError: return None`
LatestOnTimeout == [pc |-> "returned", value |-> 0]

\* get_latest_result(timeout) with timeout > 0: wait_for starts queue.get().
LatestCalled ==
    /\ latest.pc \in {"idle", "returned", "raised"}
    /\ latest' = [pc |-> "waiting", value |-> 0]
    /\ last_op' = "other"
    /\ UNCHANGED <<config, detector, factories, rtsp, iter, raised, status, is_running, is_connected,
                   is_loaded, results_queue, counters, detection_task, task, call,
                   stream_pos, taken, run_failures>>

\* queue.get() returns a result before the timeout: it is returned.
LatestGets ==
    /\ latest.pc = "waiting"
    /\ results_queue # <<>>
    /\ latest' = [pc |-> "returned", value |-> Head(results_queue)]
    /\ taken' = Head(results_queue)
    /\ results_queue' = GetNowait(results_queue)
    /\ last_op' = "other"
    /\ UNCHANGED <<config, detector, factories, rtsp, iter, raised, status, is_running, is_connected,
                   is_loaded, counters, detection_task, task, call, stream_pos,
                   run_failures>>

\* The timeout elapses with the queue empty: wait_for cancels queue.get() and
\* raises TimeoutError, which the handler turns into None.
LatestTimesOut ==
    /\ latest.pc = "waiting"
    /\ results_queue = <<>>
    /\ latest' = LatestOnTimeout
    /\ last_op' = "other"
    /\ UNCHANGED <<config, detector, factories, rtsp, iter, raised, status, is_running, is_connected,
                   is_loaded, results_queue, counters, detection_task, task, call,
                   stream_pos, taken, run_failures>>

LatestStep == LatestGets \/ LatestTimesOut

InitIterator ==
    /\ serial = TRUE
    /\ retry_attempts = DefaultRetryAttempts
    /\ DefaultDetectorConfig
    /\ \E cfg \in Configs :
        /\ cfg.len <= MaxFrames - 1
        /\ cfg.skip = 0
        /\ cfg.buf = 1
        /\ stream_len = cfg.len
        /\ result_buffer_size = cfg.buf
        /\ skip_frames = cfg.skip
        /\ max_fps = cfg.fps
    /\ InitState

NextIterator ==
    \/ \E c \in Callers : StartDetection(c)
    \/ \E c \in Callers : StartLoadModel(c)
    \/ \E c \in Callers : StartModelLoaded(c)
    \/ \E c \in Callers : StartWarmedUp(c)
    \/ \E c \in Callers : StartWarmLoaded(c)
    \/ \E c \in Callers : StopDetection(c)
    \/ \E c \in Callers : StopCancelTask(c)
    \/ \E c \in Callers : StopTaskAwaited(c)
    \/ \E t \in Tasks : LoopNextFrame(t)
    \/ \E t \in Tasks : LoopThrottled(t)
    \/ \E t \in Tasks : LoopDetected(t)
    \/ \E t \in Tasks : LoopDetectFailed(t)
    \/ \E t \in Tasks : LoopCancelled(t)
    \/ LatestCalled
    \/ LatestGets
    \/ LatestTimesOut
    \/ \E i \in Iterators : IteratorNext(i)
    \/ \E i \in Iterators : IteratorGets(i)
    \/ \E i \in Iterators : IteratorTimesOut(i)

\* The timeout of wait_for always comes, and the consumer (`async for`) asks
\* for the next result after each one: an iterator that can step does, and so
\* does a get_latest_result call that waits.
SpecIterator ==
    /\ InitIterator
    /\ [][NextIterator]_vars
    /\ \A i \in Iterators : WF_vars(IteratorStep(i))
    /\ WF_vars(LatestStep)

\* The same processes on a results queue of up to MaxBuffer places: the
\* frame loop as the one producer, the results iterators and the
\* get_latest_result calls as consumers.
InitSink ==
    /\ serial = TRUE
    /\ retry_attempts = DefaultRetryAttempts
    /\ DefaultDetectorConfig
    /\ \E cfg \in Configs :
        /\ cfg.len \in 1..MaxFrames
        /\ cfg.skip = 0
        /\ cfg.buf \in 1..MaxBuffer
        /\ stream_len = cfg.len
        /\ result_buffer_size = cfg.buf
        /\ skip_frames = cfg.skip
        /\ max_fps = cfg.fps
    /\ InitState

SpecSink == InitSink /\ [][NextIterator]_vars

\* ---------------------------------------------------------------- cleanup
CleanupNeverStops(running) == FALSE

\* `if self._is_running: await self.stop_detection()`
CleanupStops(running) == running

\* `if self.detector.is_loaded: await self.detector.unload_model()`, with the
\* unload_model of YOLOv11Detector, which sets _is_loaded False and does not
\* suspend; then cleanup() returns.
CleanupUnloadStage(c, seen) ==
    /\ is_loaded' = FALSE
    /\ call' = [call EXCEPT ![c] = NoCall]
    /\ last_op' = seen
    /\ UNCHANGED <<config, detector, factories, rtsp, iter, latest, raised, status, is_running, is_connected,
                   results_queue, counters, detection_task, task, stream_pos,
                   taken, run_failures>>

\* cleanup(): stop_detection if the running flag is set (the call returns at
\* its own guard when the status is not RUNNING), then the unload.
Cleanup(c) ==
    /\ CanCall(c)
    /\ IF CleanupStops(is_running) /\ ~StopIsNoop(status)
       THEN /\ status' = "stopping"
            /\ call' = [call EXCEPT ![c] = [pc |-> "stop_cancel", t |-> 0, then |-> "unload"]]
            /\ last_op' = "other"
            /\ UNCHANGED <<config, detector, factories, rtsp, iter, latest, raised, is_running, is_connected,
                           is_loaded, results_queue, counters, detection_task, task,
                           stream_pos, taken, run_failures>>
       ELSE CleanupUnloadStage(c, "cleanup_ret")

\* The stop_detection call of cleanup() has returned.
CleanupStopped(c) ==
    /\ call[c].pc = "cleanup_unload"
    /\ CleanupUnloadStage(c, "cleanup_stopped_ret")

InitCleanup == InitIterator

NextCleanup ==
    \/ \E c \in Callers : StartDetection(c)
    \/ \E c \in Callers : StartLoadModel(c)
    \/ \E c \in Callers : StartModelLoaded(c)
    \/ \E c \in Callers : StartWarmedUp(c)
    \/ \E c \in Callers : StartWarmLoaded(c)
    \/ \E c \in Callers : StopDetection(c)
    \/ \E c \in Callers : StopCancelTask(c)
    \/ \E c \in Callers : StopTaskAwaited(c)
    \/ \E c \in Callers : Cleanup(c)
    \/ \E c \in Callers : CleanupStopped(c)
    \/ \E t \in Tasks : LoopNextFrame(t)
    \/ \E t \in Tasks : LoopThrottled(t)
    \/ \E t \in Tasks : LoopDetected(t)
    \/ \E t \in Tasks : LoopDetectFailed(t)
    \/ \E t \in Tasks : LoopCancelled(t)
    \/ GetLatestResult
    \/ ResultsIteratorNext

SpecCleanup == InitCleanup /\ [][NextCleanup]_vars

\* ------------------------------------------------ MultiGPUYOLOv11Detector
\* The detector on its own: load_model, detect_frame calls (the coroutine up
\* to run_in_executor, the worker thread in _inference_on_device, and the
\* coroutine after the await) and detect_batch, called by any coroutines.
Range(f) == {f[k] : k \in DOMAIN f}

\* model_config["gpu_devices"]: device ids in any order (or None, which
\* get_multi_gpu_devices() makes range(device_count), [] without a GPU).
DeviceOrders ==
    {o \in UNION {[1..n -> Devices] : n \in 0..NumDevices} :
        \A j, k \in DOMAIN o : j # k => o[j] # o[k]}

FrameKinds == {"image", "no_shape"}

\* The inputs of detect_batch: frames (an image, or an array with fewer than
\* two dimensions, which has no shape[1]) and as many frame ids, ascending
\* or descending.
Batches ==
    {[frames |-> f, frame_ids |-> g] :
        f \in UNION {[1..n -> FrameKinds] : n \in 1..MaxBatch},
        g \in UNION {{[j \in 1..n |-> j], [j \in 1..n |-> n + 1 - j]} : n \in 1..MaxBatch}}

InitDetector ==
    /\ serial = TRUE
    /\ retry_attempts = DefaultRetryAttempts
    /\ stream_len = 0
    /\ result_buffer_size = 1
    /\ skip_frames = 0
    /\ max_fps = 0
    /\ enable_multi_gpu \in BOOLEAN
    /\ load_balancing \in BOOLEAN
    /\ gpu_devices \in DeviceOrders
    /\ ~enable_multi_gpu => (load_balancing /\ gpu_devices = <<>>)
    /\ InitState

\* load_model() on a detector that is not loaded (start_detection and
\* warm_up() call it under that test).  Single-device mode, or no device:
\* the base class loads.  Else each device takes the model or fails; with
\* none it returns False, else gpu_devices becomes list(self.models.keys()).
MultiGpuLoadModel ==
    /\ ~is_loaded
    /\ IF ~enable_multi_gpu \/ gpu_devices = <<>>
       THEN /\ enable_multi_gpu' = FALSE
            /\ is_loaded' \in BOOLEAN
            /\ UNCHANGED <<gpu_devices, inference_counts, device_locks>>
       ELSE \E loaded \in SUBSET Range(gpu_devices) :
              IF loaded = {}
              THEN UNCHANGED <<enable_multi_gpu, is_loaded, gpu_devices,
                               inference_counts, device_locks>>
              ELSE /\ gpu_devices' = SelectSeq(gpu_devices, LAMBDA d : d \in loaded)
                   /\ inference_counts' =
                        [d \in Devices |-> IF d \in loaded THEN 0 ELSE inference_counts[d]]
                   /\ device_locks' =
                        [d \in Devices |-> IF d \in loaded THEN 0 ELSE device_locks[d]]
                   /\ is_loaded' = TRUE
                   /\ UNCHANGED enable_multi_gpu
    /\ UNCHANGED <<service, factories, rtsp, load_balancing, inf, batch, dispatched>>

\* min(self.gpu_devices, key=lambda d: self.inference_counts.get(d, 0)):
\* the first device of the list whose count is minimal.
MinCountDevice(devs, counts) ==
    LET k == CHOOSE k \in DOMAIN devs :
                /\ \A j \in DOMAIN devs : counts[devs[k]] <= counts[devs[j]]
                /\ \A j \in 1..(k - 1) : counts[devs[j]] > counts[devs[k]]
    IN devs[k]

RoundRobinFirst(stream_id, n) == 0

\* `device_index = stream_id % len(self.gpu_devices)`
RoundRobinIndex(stream_id, n) == stream_id % n

\* _select_device_for_inference(stream_id)
SelectDevice(stream_id) ==
    IF ~enable_multi_gpu \/ Len(gpu_devices) = 1
    THEN IF gpu_devices # <<>> THEN gpu_devices[1] ELSE 0
    ELSE IF load_balancing
         THEN MinCountDevice(gpu_devices, inference_counts)
         ELSE gpu_devices[RoundRobinIndex(stream_id, Len(gpu_devices)) + 1]

\* detect_frame up to `await loop.run_in_executor(...)`: single-device mode
\* hands _inference_sync to the default pool, multi-GPU mode selects a
\* device and hands _inference_on_device to the thread pool.
Issued(frame_id, stream_id, item) ==
    IF ~enable_multi_gpu
    THEN [pc |-> "sync_submitted", dev |-> 0, fid |-> frame_id,
          stream |-> stream_id, item |-> item, ok |-> FALSE]
    ELSE [pc |-> "submitted", dev |-> SelectDevice(stream_id), fid |-> frame_id,
          stream |-> stream_id, item |-> item, ok |-> FALSE]

IdleCalls == {i \in Calls : inf[i].pc = "idle"}

\* The k idle calls of lowest number, and the place of call i among them.
Picked(k) == {i \in IdleCalls : Cardinality({j \in IdleCalls : j < i}) < k}

ItemOf(i) == Cardinality({j \in IdleCalls : j < i}) + 1

\* detect_frame(frame, frame_id, stream_id) called by a coroutine (the frame
\* loop of a service calls it without stream_id, which is then 0): it
\* raises at once when the model is not loaded.
DetectFrame(i, stream_id) ==
    /\ IdleCalls # {}
    /\ i = CHOOSE x \in IdleCalls : \A y \in IdleCalls : x <= y
    /\ dispatched < MaxDispatches
    /\ dispatched' = dispatched + 1
    /\ inf' = IF is_loaded
              THEN [inf EXCEPT ![i] = Issued(0, stream_id, 0)]
              ELSE inf
    /\ UNCHANGED <<service, factories, rtsp, is_loaded, enable_multi_gpu, load_balancing,
                   gpu_devices, inference_counts, device_locks, batch>>

LockIgnored(locks, d) == TRUE

\* threading.Lock: `with self.device_locks[device_id]` enters when it is free.
LockFree(locks, d) == locks[d] = 0

\* The worker thread starts the inference: _inference_on_device takes the
\* lock of its device; _inference_sync takes none.
InferenceStarts(i) ==
    /\ \/ /\ inf[i].pc = "submitted"
          /\ LockFree(device_locks, inf[i].dev)
          /\ device_locks' = [device_locks EXCEPT ![inf[i].dev] = i]
          /\ inf' = [inf EXCEPT ![i].pc = "running"]
       \/ /\ inf[i].pc = "sync_submitted"
          /\ inf' = [inf EXCEPT ![i].pc = "sync_running"]
          /\ UNCHANGED device_locks
    /\ UNCHANGED <<service, factories, rtsp, is_loaded, enable_multi_gpu, load_balancing,
                   gpu_devices, inference_counts, batch, dispatched>>

\* A frame with no shape[1] cannot be detected; any other detection succeeds
\* or raises.
CanSucceed(i) ==
    IF inf[i].item = 0 THEN TRUE ELSE batch.frames[inf[i].item] = "image"

\* The worker thread ends the inference (result or exception) and leaves
\* the `with` block.
InferenceEnds(i) ==
    /\ inf[i].pc \in {"running", "sync_running"}
    /\ \E ok \in BOOLEAN :
        /\ ok => CanSucceed(i)
        /\ \/ /\ inf[i].pc = "running"
              /\ device_locks' = [device_locks EXCEPT ![inf[i].dev] = 0]
              /\ inf' = [inf EXCEPT ![i].pc = "returned", ![i].ok = ok]
           \/ /\ inf[i].pc = "sync_running"
              /\ inf' = [inf EXCEPT ![i].pc = "returned", ![i].ok = ok]
              /\ UNCHANGED device_locks
    /\ UNCHANGED <<service, factories, rtsp, is_loaded, enable_multi_gpu, load_balancing,
                   gpu_devices, inference_counts, batch, dispatched>>

CountEveryInference(count, ok) == count + 1

\* `self.inference_counts[device_id] = self.inference_counts.get(device_id, 0) + 1`
\* follows the await inside the try: an exception of the inference skips it.
CountAfterInference(count, ok) == IF ok THEN count + 1 ELSE count

\* detect_frame after the await: a result adds one to the count of the device
\* (multi-GPU mode) and is returned; an exception is raised again.
DetectFrameResumes(i) ==
    /\ inf[i].pc = "returned"
    /\ inference_counts' =
         IF enable_multi_gpu
         THEN [inference_counts EXCEPT ![inf[i].dev] = CountAfterInference(@, inf[i].ok)]
         ELSE inference_counts
    /\ inf' = IF inf[i].item = 0
              THEN [inf EXCEPT ![i] = NoInf]
              ELSE [inf EXCEPT ![i].pc = "done"]
    /\ UNCHANGED <<service, factories, rtsp, is_loaded, enable_multi_gpu, load_balancing,
                   gpu_devices, device_locks, batch, dispatched>>

\* detect_batch(frames, frame_ids): refused when the model is not loaded; else
\* one detect_frame coroutine per frame (stream_ids default to the places
\* 0..n-1 in multi-GPU mode) handed to asyncio.gather, whose tasks each run up
\* to their await one after the other.
DetectBatch(frames, frame_ids) ==
    /\ batch.pc # "waiting"
    /\ Len(frames) = Len(frame_ids)
    /\ dispatched + Len(frames) <= MaxDispatches
    /\ IF ~is_loaded
       THEN /\ batch' = [NoBatch EXCEPT !.pc = "refused"]
            /\ UNCHANGED <<inf, dispatched>>
       ELSE /\ Cardinality(IdleCalls) >= Len(frames)
            /\ inf' = [i \in Calls |->
                         IF i \in Picked(Len(frames))
                         THEN Issued(frame_ids[ItemOf(i)],
                                     IF enable_multi_gpu THEN ItemOf(i) - 1
                                     ELSE DefaultStreamId,
                                     ItemOf(i))
                         ELSE inf[i]]
            /\ batch' = [pc |-> "waiting", frames |-> frames, frame_ids |-> frame_ids,
                         oks |-> <<>>, results |-> <<>>]
            /\ dispatched' = dispatched + Len(frames)
    /\ UNCHANGED <<service, factories, rtsp, is_loaded, enable_multi_gpu, load_balancing,
                   gpu_devices, inference_counts, device_locks>>

CallOf(item) == CHOOSE i \in Calls : inf[i].item = item

\* gather(return_exceptions=True) is complete: a result is kept; an exception
\* is replaced by an empty result made from frame_ids[i] and frames[i].shape,
\* and an exception raised there fails the whole call.
DetectBatchGathered ==
    /\ batch.pc = "waiting"
    /\ \A i \in Calls : inf[i].item > 0 => inf[i].pc = "done"
    /\ LET n == Len(batch.frames)
           oks == [j \in 1..n |-> inf[CallOf(j)].ok]
           results ==
             [j \in 1..n |->
                IF oks[j]
                THEN [frame_id |-> inf[CallOf(j)].fid, detections |-> "detected",
                      error |-> FALSE]
                ELSE [frame_id |-> batch.frame_ids[j], detections |-> "empty",
                      error |-> TRUE]]
       IN batch' = IF \E j \in 1..n : ~oks[j] /\ batch.frames[j] = "no_shape"
                   THEN [batch EXCEPT !.pc = "raised", !.oks = oks]
                   ELSE [batch EXCEPT !.pc = "returned", !.oks = oks,
                                      !.results = results]
    /\ inf' = [i \in Calls |-> IF inf[i].item > 0 THEN NoInf ELSE inf[i]]
    /\ UNCHANGED <<service, factories, rtsp, is_loaded, enable_multi_gpu, load_balancing,
                   gpu_devices, inference_counts, device_locks, dispatched>>

\* unload_model() on a loaded detector (cleanup() calls it under that test):
\* thread_pool.shutdown(wait=True) returns when the worker threads have run
\* what was handed to the pool, then models, locks and counts are cleared.
\* Single-device inferences run in the default pool, which is not shut down.
MultiGpuUnloadModel ==
    /\ is_loaded
    /\ \A i \in Calls : inf[i].pc \notin {"submitted", "running"}
    /\ inference_counts' = [d \in Devices |-> 0]
    /\ device_locks' = [d \in Devices |-> 0]
    /\ is_loaded' = FALSE
    /\ UNCHANGED <<service, factories, rtsp, enable_multi_gpu, load_balancing,
                   gpu_devices, inf, batch, dispatched>>

NextDetector ==
    \/ MultiGpuLoadModel
    \/ MultiGpuUnloadModel
    \/ \E i \in Calls, stream_id \in StreamIds : DetectFrame(i, stream_id)
    \/ \E i \in Calls : InferenceStarts(i)
    \/ \E i \in Calls : InferenceEnds(i)
    \/ \E i \in Calls : DetectFrameResumes(i)
    \/ \E b \in Batches : DetectBatch(b.frames, b.frame_ids)
    \/ DetectBatchGathered

SpecDetector == InitDetector /\ [][NextDetector]_vars

\* -------------------------------------------------------------- factories
\* core/factory.py.  A URL is the sequence of its characters.
Schemes == {<<"r", "t", "s", "p">>, <<"R", "T", "S", "P">>, <<"r", "t", "m", "p">>,
            <<"h", "t", "t", "p">>, <<"h", "t", "t", "p", "s">>,
            <<"f", "i", "l", "e">>, <<"f", "t", "p">>, <<>>}
Separators == {<<":", "/", "/">>, <<>>}
Locations == {<<"h">>, <<"h", "/", "v">>, <<"h", "\\", "v">>}
Urls == {sc \o sep \o loc : sc \in Schemes, sep \in Separators, loc \in Locations}

\* The URLs of the StreamConfig given to create(): those with a bare host.
ConfigUrls == {sc \o sep \o <<"h">> : sc \in Schemes, sep \in Separators}

\* str.lower(), on the letters the URLs hold in upper case.
LowerChar(c) ==
    CASE c = "R" -> "r"
      [] c = "T" -> "t"
      [] c = "S" -> "s"
      [] c = "P" -> "p"
      [] OTHER -> c

Lower(url) == [k \in DOMAIN url |-> LowerChar(url[k])]

\* str.startswith(prefix)
StartsWith(url, prefix) ==
    Len(url) >= Len(prefix) /\ SubSeq(url, 1, Len(prefix)) = prefix

\* `c in url`
Contains(url, c) == \E k \in DOMAIN url : url[k] = c

Prefix(scheme) == scheme \o <<":", "/", "/">>

\* _detect_protocol_from_url: the tag, or "undetectable" when it raises.
DetectProtocolFromUrl(url) ==
    LET url_lower == Lower(url) IN
    IF StartsWith(url_lower, Prefix(<<"r", "t", "s", "p">>)) THEN "rtsp"
    ELSE IF StartsWith(url_lower, Prefix(<<"r", "t", "m", "p">>)) THEN "rtmp"
    ELSE IF StartsWith(url_lower, Prefix(<<"h", "t", "t", "p">>)) THEN "http"
    ELSE IF StartsWith(url_lower, Prefix(<<"h", "t", "t", "p", "s">>)) THEN "https"
    ELSE IF \/ StartsWith(url_lower, Prefix(<<"f", "i", "l", "e">>))
            \/ Contains(url, "/")
            \/ Contains(url, "\\")
         THEN "file"
    ELSE "undetectable"

\* `tag in cls._detectors`
IsRegistered(registry, tag) == tag \in DOMAIN registry

NoTypesListed(registry) == {}

\* `list(cls._detectors.keys())`
AvailableTypes(registry) == DOMAIN registry

\* `cls._detectors[detector_type] = detector_class`
Registered(registry, tag, class) ==
    [t \in DOMAIN registry \cup {tag} |-> IF t = tag THEN class ELSE registry[t]]

\* The class registry.py registers under each tag (a key of the other enum
\* is given the class of the file provider, or of the YOLO detector).
ProviderClassOf(tag) ==
    CASE tag = "rtsp" -> "RTSPStreamProvider"
      [] tag = "rtmp" -> "RTMPStreamProvider"
      [] tag \in {"http", "https"} -> "HTTPStreamProvider"
      [] OTHER -> "FileStreamProvider"

DetectorClassOf(tag) == "YOLOv11Detector"

DetectorKeys == DetectorTags \cup {"file"}
ProviderKeys == FactoryTags

RegisterDetector(tag) ==
    /\ detectors' = Registered(detectors, tag, DetectorClassOf(tag))
    /\ made' = NoMade
    /\ UNCHANGED <<service, detector, rtsp, is_loaded, built, providers>>

RegisterProvider(tag) ==
    /\ providers' = Registered(providers, tag, ProviderClassOf(tag))
    /\ made' = NoMade
    /\ UNCHANGED <<service, detector, rtsp, is_loaded, built, detectors>>

\* The raise of create() for a tag that is not registered: the message names
\* the tag and lists the keys of the registry.
UnknownType(kind, tag, url, protocol, registry) ==
    [call |-> kind, tag |-> tag, url |-> url, protocol |-> protocol,
     out |-> Construct("ConfigurationException"), cls |-> NoClass,
     names |-> tag, lists |-> AvailableTypes(registry)]

\* `return detector_class(model_config)`: the instance, or what __init__
\* raises (YOLOv11Detector: ModelLoadException for an unsupported variant).
DetectorFactoryCreate(tag, accepted) ==
    IF ~IsRegistered(detectors, tag)
    THEN UnknownType("detector", tag, <<>>, "none", detectors)
    ELSE [call |-> "detector", tag |-> tag, url |-> <<>>, protocol |-> "none",
          out |-> IF accepted THEN "instance" ELSE Construct("ModelLoadException"),
          cls |-> IF accepted THEN detectors[tag] ELSE NoClass,
          names |-> "none", lists |-> {}]

\* __init__ of the provider classes: RTSPStreamProvider wants the URL to start
\* with 'rtsp://' as written, FileStreamProvider wants the file to exist; the
\* others are taken to accept or refuse as the environment decides.
ProviderAccepts(class, url, exists) ==
    IF class = "RTSPStreamProvider"
    THEN StartsWith(url, Prefix(<<"r", "t", "s", "p">>))
    ELSE exists

\* StreamProviderFactory.create(config) with config.protocol = tag.
ProviderFactoryCreate(kind, tag, url, protocol, exists) ==
    IF ~IsRegistered(providers, tag)
    THEN UnknownType(kind, tag, url, protocol, providers)
    ELSE LET accepted == ProviderAccepts(providers[tag], url, exists) IN
         [call |-> kind, tag |-> tag, url |-> url, protocol |-> protocol,
          out |-> IF accepted THEN "instance"
                  ELSE Construct("StreamConnectionException"),
          cls |-> IF accepted THEN providers[tag] ELSE NoClass,
          names |-> "none", lists |-> {}]

\* The create calls leave the registries as they are: the outcome of one call
\* is kept until the next register call.
CreateDetector(tag, accepted) ==
    /\ made = NoMade
    /\ made' = DetectorFactoryCreate(tag, accepted)
    /\ UNCHANGED <<service, detector, rtsp, is_loaded, built, detectors, providers>>

CreateProvider(tag, url, exists) ==
    /\ made = NoMade
    /\ made' = ProviderFactoryCreate("provider", tag, url, "none", exists)
    /\ UNCHANGED <<service, detector, rtsp, is_loaded, built, detectors, providers>>

\* create_from_url: detect the protocol, build the StreamConfig, create.
CreateFromUrl(url, exists) ==
    /\ made = NoMade
    /\ LET protocol == DetectProtocolFromUrl(url) IN
       made' = IF protocol = "undetectable"
               THEN [call |-> "from_url", tag |-> "none", url |-> url,
                     protocol |-> protocol,
                     out |-> Construct("ConfigurationException"), cls |-> NoClass,
                     names |-> "none", lists |-> {}]
               ELSE ProviderFactoryCreate("from_url", protocol, url, protocol, exists)
    /\ UNCHANGED <<service, detector, rtsp, is_loaded, built, detectors, providers>>

InitFactory ==
    /\ serial = TRUE
    /\ retry_attempts = DefaultRetryAttempts
    /\ DefaultDetectorConfig
    /\ stream_len = 0
    /\ result_buffer_size = 1
    /\ skip_frames = 0
    /\ max_fps = DefaultMaxFps
    /\ InitState

NextFactory ==
    \/ \E tag \in DetectorKeys : RegisterDetector(tag)
    \/ \E tag \in ProviderKeys : RegisterProvider(tag)
    \/ \E tag \in FactoryTags, accepted \in BOOLEAN : CreateDetector(tag, accepted)
    \/ \E tag \in FactoryTags, url \in ConfigUrls, exists \in BOOLEAN :
          CreateProvider(tag, url, exists)
    \/ \E url \in Urls, exists \in BOOLEAN : CreateFromUrl(url, exists)

SpecFactory == InitFactory /\ [][NextFactory]_vars

\* ------------------------------------------- construction of a service
\* service.py: ServiceConfig, RealtimeAIService.__init__ and the convenience
\* functions.  A dict is the function from its keys to its values.
ProcessingKeys ==
    <<"max_fps", "skip_frames", "batch_size", "enable_tracking", "result_buffer_size">>

\* `{**a, **b}`: the keys of both, with the values of b where both have one.
Merge(a, b) ==
    [k \in DOMAIN a \cup DOMAIN b |-> IF k \in DOMAIN b THEN b[k] ELSE a[k]]

\* ServiceConfig.__post_init__, for processing_config None.
DefaultProcessingConfig ==
    [max_fps |-> DefaultMaxFps, skip_frames |-> DefaultSkipFrames,
     batch_size |-> DefaultBatchSize, enable_tracking |-> FALSE,
     result_buffer_size |-> DefaultBufferSize]

\* kwargs.get('processing_params', {}): what a caller may add.
ProcessingParams ==
    {[k \in ks |-> IF k = "enable_tracking" THEN FALSE ELSE b] :
        ks \in SUBSET {"enable_tracking", "result_buffer_size"}, b \in 1..MaxBuffer}

\* The processing_config dict of create_rtsp_yolo_service and
\* create_rtmp_yolo_service: three keys, then **processing_params.
ConvenienceProcessingConfig(fps, skip, params) ==
    Merge([max_fps |-> fps, skip_frames |-> skip, batch_size |-> DefaultBatchSize],
          params)

\* `config.processing_config[key]`, in the order of __init__: the first key
\* that is not in the dict raises KeyError.
MissingKeys(pc) == {i \in DOMAIN ProcessingKeys : ProcessingKeys[i] \notin DOMAIN pc}

FirstMissing(pc) ==
    ProcessingKeys[CHOOSE i \in MissingKeys(pc) : \A j \in MissingKeys(pc) : i <= j]

\* RealtimeAIService.__init__(config): create_realtime_ai_system (detector,
\* then stream provider, either of which may raise), status IDLE, then the
\* five settings read from processing_config.
ServiceInit(kind, tag, url, exists, given, pc) ==
    LET det == DetectorFactoryCreate("yolov11n", TRUE)
        prov == ProviderFactoryCreate("provider", tag, url, "none", exists)
        failed == [call |-> kind, url |-> url, given |-> given, system |-> FALSE,
                   out |-> "none", missing |-> "none", status |-> "none",
                   settings |-> <<>>]
    IN IF det.out # "instance" THEN [failed EXCEPT !.out = det.out]
       ELSE IF prov.out # "instance" THEN [failed EXCEPT !.out = prov.out]
       ELSE IF MissingKeys(pc) # {}
            THEN [failed EXCEPT !.system = TRUE, !.out = "KeyError",
                                !.missing = FirstMissing(pc)]
            ELSE [call |-> kind, url |-> url, given |-> given, system |-> TRUE,
                  out |-> "service", missing |-> "none", status |-> "idle",
                  settings |-> pc]

\* create_rtsp_yolo_service(rtsp_url, max_fps=fps, skip_frames=skip,
\* processing_params=params)
CreateRtspYoloService(url, fps, skip, params) ==
    /\ built = NoBuilt
    /\ built' = ServiceInit("rtsp_yolo", "rtsp", url, TRUE,
                            [max_fps |-> fps, skip |-> skip, params |-> params],
                            ConvenienceProcessingConfig(fps, skip, params))
    /\ UNCHANGED <<service, detector, rtsp, is_loaded, detectors, providers, made>>

\* create_rtmp_yolo_service(rtmp_url, ...); the RTMP provider takes the URL
\* or refuses it (`exists`).
CreateRtmpYoloService(url, exists, fps, skip, params) ==
    /\ built = NoBuilt
    /\ built' = ServiceInit("rtmp_yolo", "rtmp", url, exists,
                            [max_fps |-> fps, skip |-> skip, params |-> params],
                            ConvenienceProcessingConfig(fps, skip, params))
    /\ UNCHANGED <<service, detector, rtsp, is_loaded, detectors, providers, made>>

\* RealtimeAIService(ServiceConfig(detector_type, model_config, stream_config))
\* with processing_config left None.
NewService(tag, url, exists) ==
    /\ built = NoBuilt
    /\ built' = ServiceInit("service", tag, url, exists,
                            [max_fps |-> DefaultMaxFps, skip |-> DefaultSkipFrames,
                             params |-> <<>>],
                            DefaultProcessingConfig)
    /\ UNCHANGED <<service, detector, rtsp, is_loaded, detectors, providers, made>>

\* register_all(): the YOLO detectors and the five stream providers.
RegisterAll ==
    /\ detectors' = [t \in DetectorTags |-> DetectorClassOf(t)]
    /\ providers' = [t \in ProtocolTags |-> ProviderClassOf(t)]
    /\ UNCHANGED <<service, detector, rtsp, is_loaded, built, made>>

InitBuild == InitFactory

NextBuild ==
    \/ RegisterAll
    \/ \E url \in ConfigUrls, fps \in {0, DefaultMaxFps}, skip \in 0..MaxSkip,
          params \in ProcessingParams : CreateRtspYoloService(url, fps, skip, params)
    \/ \E url \in ConfigUrls, exists \in BOOLEAN, fps \in {0, DefaultMaxFps},
          skip \in 0..MaxSkip, params \in ProcessingParams :
            CreateRtmpYoloService(url, exists, fps, skip, params)
    \/ \E tag \in ProtocolTags, url \in ConfigUrls, exists \in BOOLEAN :
            NewService(tag, url, exists)

\* One construction is followed per behaviour: its outcome depends on the
\* arguments and on the registries only.
SpecBuild == InitBuild /\ [][NextBuild]_vars

\* ----------------------------------------------------- RTSPStreamProvider
\* streams/rtsp_provider.py: the provider alone, with get_frame_iterator as a
\* process cut at its awaits (the read in the executor, the sleep before a
\* retry) and at its yield.
outside_rtsp == <<config, detector, factories, iter, latest, raised, status, is_running,
                  is_loaded, results_queue, counters, detection_task, task, call,
                  stream_pos, taken, run_failures, last_op>>

KeepCount(count) == count

\* `retry_count = 0  # Reset retry count on success`
CountAfterFrame(count) == 0

\* `retry_count += 1`
CountAfterFailure(count) == count + 1

\* `while self._is_connected and retry_count < self.config.retry_attempts`
ReaderContinues(connected, count) == connected /\ count < retry_attempts

\* The head of the loop: read the next frame, or leave the generator.
ReaderLoopHead(connected, count) ==
    IF ReaderContinues(connected, count)
    THEN [pc |-> "reading", why |-> "none"]
    ELSE [pc |-> "ended", why |-> IF connected THEN "retries" ELSE "disconnected"]

\* connect(): the first frame was read, _is_connected = True.
RtspConnect ==
    /\ ~is_connected
    /\ is_connected' = TRUE
    /\ UNCHANGED <<outside_rtsp, rtsp>>

\* disconnect(): _is_connected = False.
RtspDisconnect ==
    /\ is_connected
    /\ is_connected' = FALSE
    /\ UNCHANGED <<outside_rtsp, rtsp>>

\* get_frame_iterator() is called and asked for its first frame:
\* `retry_count = 0`, then the head of the loop.
ReaderStarts ==
    /\ reader.pc \in {"idle", "ended"}
    /\ retry_count' = 0
    /\ reader' = ReaderLoopHead(is_connected, 0)
    /\ reads' = [reads EXCEPT !.run = 0]
    /\ UNCHANGED <<outside_rtsp, is_connected, retry_attempts>>

\* get_frame() returns a frame: the count is reset and the frame is yielded.
ReaderGetsFrame ==
    /\ reader.pc = "reading"
    /\ is_connected
    /\ reads.ok + reads.failed < MaxReads
    /\ retry_count' = CountAfterFrame(retry_count)
    /\ reader' = [pc |-> "yielded", why |-> "none"]
    /\ reads' = [reads EXCEPT !.ok = @ + 1, !.run = 0]
    /\ UNCHANGED <<outside_rtsp, is_connected, retry_attempts>>

\* get_frame() returns None (the read failed, or raised inside get_frame), or
\* raises because the provider was disconnected since the head of the loop;
\* the two branches of the iterator count alike: count the failure, and break
\* at retry_attempts or sleep before the retry.
ReaderReadFails ==
    /\ reader.pc = "reading"
    /\ reads.ok + reads.failed < MaxReads
    /\ retry_count' = CountAfterFailure(retry_count)
    /\ reader' = IF CountAfterFailure(retry_count) >= retry_attempts
                 THEN [pc |-> "ended", why |-> "retries"]
                 ELSE [pc |-> "sleeping", why |-> "none"]
    /\ reads' = [reads EXCEPT !.failed = @ + 1, !.run = @ + 1]
    /\ UNCHANGED <<outside_rtsp, is_connected, retry_attempts>>

\* The sleep has ended, or the consumer asks for the frame after the one it
\* was given: the head of the loop.
ReaderResumes ==
    /\ reader.pc \in {"sleeping", "yielded"}
    /\ reader' = ReaderLoopHead(is_connected, retry_count)
    /\ UNCHANGED <<outside_rtsp, is_connected, retry_attempts, retry_count, reads>>

InitRtsp ==
    /\ serial = TRUE
    /\ retry_attempts \in 0..MaxRetry
    /\ DefaultDetectorConfig
    /\ stream_len = 0
    /\ result_buffer_size = 1
    /\ skip_frames = 0
    /\ max_fps = DefaultMaxFps
    /\ InitState

NextRtsp ==
    \/ RtspConnect
    \/ RtspDisconnect
    \/ ReaderStarts
    \/ ReaderGetsFrame
    \/ ReaderReadFails
    \/ ReaderResumes

SpecRtsp == InitRtsp /\ [][NextRtsp]_vars

\* ------------------------------------------------------------ properties
StopPcs == {"stop_cancel", "stop_wait"}

StrictlyIncreasing(q) == \A i \in 1..(Len(q) - 1) : q[i] < q[i + 1]

NoLiveTask(tk) == \A t \in Tasks : ~TaskLive(tk[t])

\* C1: the results queue never holds more results than the configured
\* result_buffer_size.
C1_SinkWithinCapacity == Len(results_queue) <= result_buffer_size

\* C2: a push into a full results queue discards exactly the oldest result,
\* inserts the new result as the newest and keeps the others in order.
C2_PushEvictsOldest ==
    [][\A t \in Tasks :
        (/\ task[t].pc = "detect"
         /\ task'[t].pc = "iter"
         /\ processed_frame_count' = processed_frame_count + 1
         /\ result_buffer_size > 0
         /\ Len(results_queue) = result_buffer_size)
        => (/\ Len(results_queue') = Len(results_queue)
            /\ results_queue'[Len(results_queue')] = task[t].fid
            /\ \A i \in 1..(Len(results_queue) - 1) :
                  results_queue'[i] = results_queue[i + 1])]_vars

C2_Evicted ==
    /\ status = "running"
    /\ result_buffer_size > 1
    /\ Len(results_queue) = result_buffer_size
    /\ taken = 0
    /\ processed_frame_count > result_buffer_size

\* C3: within a run the queued results are in frame order, and every result
\* a consumer can take has a larger frame id than the last one taken.
C3_ResultsInFrameOrder ==
    /\ StrictlyIncreasing(results_queue)
    /\ (results_queue # <<>> =>
          (/\ taken < Head(results_queue)
           /\ results_queue[Len(results_queue)] <= frame_count))

C3_TakenThenQueued == taken > 0 /\ Len(results_queue) >= 2

\* C4: with skip_frames = 0, no detector failure and no stop, the loop ends
\* at the end of the stream with processed = frames of the stream, errors = 0.
C4_AllFramesProcessed ==
    (/\ status = "running"
     /\ detection_task # 0
     /\ task[detection_task].pc = "done"
     /\ skip_frames = 0
     /\ run_failures = 0)
    => (processed_frame_count = stream_len /\ error_count = 0)

C4_StreamProcessed ==
    /\ status = "running"
    /\ detection_task # 0
    /\ task[detection_task].exit = "eos"
    /\ skip_frames = 0
    /\ run_failures = 0
    /\ stream_len >= 2
    /\ processed_frame_count = stream_len

\* C5: when the error counter exceeds the threshold the status goes from
\* running to error and the loop has exited.
C5_ThresholdSetsError ==
    [][(status = "running" /\ error_count <= ErrorThreshold
          /\ error_count' > ErrorThreshold)
       => (status' = "error" /\ NoLiveTask(task'))]_vars

\* C6 as stated: once the error count has reached 10 no further frame is
\* read in the run.
C6_NoReadAtTen ==
    [][error_count >= ErrorThreshold
       => (stream_pos' # stream_pos + 1 /\ frame_count' # frame_count + 1)]_vars

\* C6 amended: once the error count has exceeded 10 (reached 11) the frame
\* loop has exited and no further frame is read in the run.
C6_NoReadPastTen ==
    /\ [](error_count > ErrorThreshold => NoLiveTask(task))
    /\ [][error_count > ErrorThreshold
          => (stream_pos' # stream_pos + 1 /\ frame_count' # frame_count + 1)]_vars

C6_ExitedWithFramesLeft ==
    /\ error_count > ErrorThreshold
    /\ is_connected
    /\ stream_pos < stream_len
    /\ NoLiveTask(task)

\* C7: a detector failure with the error count still within the threshold
\* adds exactly one to the error counter, pushes and counts no result, keeps
\* the status and lets the loop go on to the next frame; the error counter
\* is the number of failed detections of the run, and between frames every
\* frame read is counted as either processed or failed.
C7_FailureRecoveredLocally ==
    /\ [](error_count = run_failures)
    /\ []((/\ skip_frames = 0
           /\ detection_task # 0
           /\ \/ task[detection_task].pc = "iter"
              \/ task[detection_task].exit \in {"eos", "errors"})
          => processed_frame_count + error_count = frame_count)
    /\ [][\A t \in Tasks :
           (/\ task[t].pc = "detect"
            /\ task'[t].pc # "detect"
            /\ run_failures' = run_failures + 1
            /\ error_count < ErrorThreshold)
           => (/\ error_count' = error_count + 1
               /\ task'[t].pc = "iter"
               /\ status' = status
               /\ processed_frame_count' = processed_frame_count
               /\ results_queue' = results_queue)]_vars

C7_ThreeOfNineFailed ==
    /\ status = "running"
    /\ frame_count = 9
    /\ error_count = 3
    /\ processed_frame_count = 6
    /\ detection_task # 0
    /\ task[detection_task].pc = "iter"

\* C8: a stop call that finds the service running sets stopping, keeps it
\* until it returns, and returns with status idle, the running flag false,
\* the stream disconnected and no live frame loop task.
C8_StopReachesIdle ==
    /\ [](\A c \in Callers : call[c].pc \in StopPcs => status = "stopping")
    /\ [][\A c \in Callers :
           /\ (call[c].pc = "idle" /\ call'[c].pc \in StopPcs)
              => (status = "running" /\ status' = "stopping")
           /\ (call[c].pc \in StopPcs /\ call'[c].pc = "idle")
              => (/\ status' = "idle"
                  /\ ~is_running'
                  /\ ~is_connected'
                  /\ NoLiveTask(task'))]_vars

C8_StoppedLiveLoop ==
    /\ status = "idle"
    /\ last_op = "stop_ret"
    /\ detection_task # 0
    /\ task[detection_task].exit = "cancelled"
    /\ ~is_running
    /\ ~is_connected

\* C9: a stop call made right after a stop call returned does not get past
\* the guard and changes nothing.
C9_StopIdempotent ==
    [][(last_op = "stop_ret" /\ last_op' \in {"stop_again", "stop_call"})
       => (/\ last_op' = "stop_again"
           /\ UNCHANGED <<status, is_running, is_connected, is_loaded,
                          results_queue, counters, detection_task, task, call,
                          stream_pos>>)]_vars

C9_StoppedTwice ==
    /\ last_op = "stop_again"
    /\ status = "idle"
    /\ processed_frame_count > 0

\* C10: the status never changes from idle to running in one step.
C10_NoIdleToRunning == [][status = "idle" => status' # "running"]_vars

StartPcs == {"start_load", "start_loading", "start_warm", "start_warm_loading"}

\* C11: when connect() fails in a start call, the caller gets the connection
\* error, the status becomes error and no frame loop task is created.
C11_ConnectFailureSurfaced ==
    [][\A c \in Callers :
         (call[c].pc \in StartPcs /\ call'[c].pc = "idle"
            /\ raised.at = "none" /\ raised'.at = "connect")
         => (/\ raised'.exc \in ConnectionErrors
             /\ status' = "error"
             /\ task' = task
             /\ detection_task' = detection_task)]_vars

\* C11, the rest of the statement: a failed connect sets status error and
\* creates no frame loop task.
C11_ConnectFailureSetsError ==
    [][\A c \in Callers :
         (call[c].pc \in StartPcs /\ call'[c].pc = "idle"
            /\ raised.at = "none" /\ raised'.at = "connect")
         => (/\ status' = "error"
             /\ task' = task
             /\ detection_task' = detection_task)]_vars

LoadPcs == {"start_loading", "start_warm_loading"}

\* C12: a load_model() that ends without the model loaded (it raised, or it
\* reported failure) makes the start call fatal: status error, no frame loop
\* task created; and the status is never running with the model not loaded.
C12_LoadFailureIsFatal ==
    /\ [](status = "running" => is_loaded)
    /\ [][\A c \in Callers :
           (call[c].pc \in LoadPcs /\ call'[c].pc \notin LoadPcs /\ ~is_loaded')
           => (/\ status' = "error"
               /\ call'[c].pc = "idle"
               /\ task' = task
               /\ detection_task' = detection_task)]_vars

\* C12, the raising case alone: a load_model() that raises sets status error
\* and ends the start call with no frame loop task created.
C12_LoadRaiseIsFatal ==
    [][\A c \in Callers :
         (call[c].pc \in LoadPcs /\ call'[c].pc = "idle"
            /\ raised.at = "none" /\ raised'.at = "load")
         => (/\ status' = "error"
             /\ call'[c].pc = "idle"
             /\ ~is_loaded'
             /\ task' = task
             /\ detection_task' = detection_task)]_vars

LiveTasks(tk) == {t \in Tasks : TaskLive(tk[t])}

\* C13: at most one frame loop task is live at any time, whatever the
\* interleaving of the start and stop calls.
C13_AtMostOneLoop == Cardinality(LiveTasks(task)) <= 1

\* C19: while the status is idle (a stop call has returned and no start
\* call has been made since) no result is pushed and the frame, processed
\* and error counters do not change.
C19_QuietAfterStop ==
    [][status = "idle"
       => (/\ counters' = counters
           /\ \/ results_queue' = results_queue
              \/ /\ results_queue # <<>>
                 /\ results_queue' = Tail(results_queue))]_vars

\* A stop call has returned after it cancelled the loop with a frame read
\* and counted and its inference in flight.
C19_StoppedMidInference ==
    /\ status = "idle"
    /\ last_op = "stop_ret"
    /\ max_fps = 0
    /\ skip_frames = 0
    /\ detection_task # 0
    /\ task[detection_task].exit = "cancelled"
    /\ frame_count >= 2
    /\ processed_frame_count + error_count < frame_count

IteratorOpen(i) == iter[i].pc \in {"waiting", "yielded"}

\* C20: a results iterator ends only with the running flag false and the
\* queue empty; and once the running flag is false and the queue is empty,
\* every open iterator ends (unless the service is started again first).
C20_IteratorEndsWhenDrained ==
    /\ [][\A i \in Iterators :
           (iter[i].pc # "ended" /\ iter'[i].pc = "ended")
           => (~is_running /\ results_queue = <<>>)]_vars
    /\ \A i \in Iterators :
          (IteratorOpen(i) /\ ~is_running /\ results_queue = <<>>)
          ~> (iter[i].pc = "ended" \/ is_running)

\* An iterator has yielded results of a run and has ended after the stop.
C20_EndedAfterStop ==
    \E i \in Iterators :
        /\ iter[i].pc = "ended"
        /\ iter[i].last > 0
        /\ status = "idle"
        /\ ~is_running
        /\ processed_frame_count >= 2

\* C21: a get_latest_result call never raises and never waits for ever; when
\* it stops waiting with the queue empty it returns None and takes nothing.
C21_LatestReturnsNoneOnTimeout ==
    /\ [][(latest.pc = "waiting" /\ latest'.pc # "waiting")
           => /\ latest'.pc = "returned"
              /\ results_queue = <<>>
                   => (latest'.value = 0 /\ results_queue' = <<>>)]_vars
    /\ latest.pc = "waiting" ~> latest.pc = "returned"

\* A call has returned None while the service runs with an empty queue.
C21_ReturnedNoneWhileRunning ==
    /\ latest.pc = "returned"
    /\ latest.value = 0
    /\ status = "running"
    /\ results_queue = <<>>
    /\ processed_frame_count = 0

CleanupReturns == {"cleanup_ret", "cleanup_stopped_ret"}

C23_FrameIdsFromZero ==
    \A t \in Tasks : task[t].pc = "detect" => task[t].fid + 1 = frame_count

\* The step records a complete result for the frame task t has dispatched.
ResultRecorded(t) ==
    /\ processed_frame_count' = processed_frame_count + 1
    /\ error_count' = error_count
    /\ results_queue' # <<>>
    /\ results_queue'[Len(results_queue')] = task[t].fid

\* The step records an error for the frame task t has dispatched.
ErrorRecorded(t) ==
    /\ error_count' = error_count + 1
    /\ processed_frame_count' = processed_frame_count
    /\ results_queue' = results_queue

\* C24: the step that ends the wait of a loop for a dispatched frame records
\* exactly one outcome for it, a pushed result or a counted error.
C24_OneOutcomePerDispatch ==
    [][\A t \in Tasks :
         (task[t].pc = "detect" /\ task'[t].pc # "detect")
         => (ResultRecorded(t) \/ ErrorRecorded(t))]_vars

\* C24 as amended: the same for every dispatched frame whose detection ends
\* before stop_detection cancels the loop.
C24_OneOutcomeUnlessCancelled ==
    [][\A t \in Tasks :
         (task[t].pc = "detect" /\ task'[t].pc \notin {"detect", "cancelling"})
         => /\ ResultRecorded(t) \/ ErrorRecorded(t)
            /\ ~(ResultRecorded(t) /\ ErrorRecorded(t))]_vars

\* Two frames were dispatched; one gave a result and the other an error.
C24_OneOfEach ==
    /\ skip_frames = 0
    /\ frame_count = 2
    /\ processed_frame_count = 1
    /\ error_count = 1
    /\ results_queue # <<>>
    /\ detection_task # 0
    /\ task[detection_task].pc = "iter"

\* The newest n frame ids of a run of len frames, oldest first.
NewestIds(len, n) == [k \in 1..n |-> len - n + k]

\* C25: a loop that has a detection result can always push it at once,
\* whatever the queue holds; and a run no consumer took anything from, with no
\* frame skipped or failed, has processed every frame at the end of the stream
\* and left the newest results in the queue.
C25_PushNeverWaits ==
    /\ \A t \in Tasks :
          (task[t].pc = "detect" /\ is_loaded) => ENABLED LoopDetected(t)
    /\ (/\ detection_task # 0
        /\ task[detection_task].exit = "eos"
        /\ status = "running"
        /\ taken = 0
        /\ skip_frames = 0
        /\ run_failures = 0
        /\ result_buffer_size > 0
        /\ stream_len >= result_buffer_size)
       => /\ processed_frame_count = stream_len
          /\ results_queue = NewestIds(stream_len, result_buffer_size)

\* The queue was full for two pushes or more and nothing was taken from it.
C25_PushedOntoFullQueue ==
    /\ detection_task # 0
    /\ task[detection_task].exit = "eos"
    /\ status = "running"
    /\ taken = 0
    /\ result_buffer_size > 0
    /\ QueueFull(results_queue, result_buffer_size)
    /\ processed_frame_count >= result_buffer_size + 2

\* The registry a create call looks the tag up in.
OwnRegistry == IF made.call = "detector" THEN detectors ELSE providers

OtherRegistry == IF made.call = "detector" THEN providers ELSE detectors

\* create() has failed with the configuration error for an unknown tag.
FailedUnknown ==
    /\ made.out = "ConfigurationException"
    /\ made.names = made.tag
    /\ made.lists = DOMAIN OwnRegistry

\* C26: create returns an instance exactly when the tag is registered in the
\* factory's own registry, and otherwise fails with the configuration error
\* that names the tag and lists the registered tags.
C26_CreateIffRegistered ==
    made.call \in {"detector", "provider"}
    => IF made.tag \in DOMAIN OwnRegistry
       THEN made.out = "instance" /\ made.cls = OwnRegistry[made.tag]
       ELSE FailedUnknown

\* C26 as amended: the instance is of the class registered under the tag in
\* the factory's own registry and is returned when that class accepts the
\* configuration, else create fails with what the class raises; for a tag not
\* in the own registry it fails with the configuration error.
C26_CreateIffRegisteredAndAccepted ==
    made.call \in {"detector", "provider"}
    => IF made.tag \in DOMAIN OwnRegistry
       THEN \/ made.out = "instance" /\ made.cls = OwnRegistry[made.tag]
            \/ made.out \notin {"instance", "ConfigurationException"} /\ made.cls = NoClass
       ELSE FailedUnknown

\* create failed for a tag that only the other factory has registered.
C26_KnownOnlyToTheOther ==
    /\ made.call = "provider"
    /\ made.tag \in DOMAIN OtherRegistry
    /\ DOMAIN OwnRegistry # {}
    /\ FailedUnknown

\* The scheme of a URL: its characters before "://", in lower case; <<>> for
\* a URL without "://".
SchemeOf(url) ==
    IF \E sc \in Schemes : sc # <<>> /\ StartsWith(url, Prefix(sc))
    THEN Lower(CHOOSE sc \in Schemes : sc # <<>> /\ StartsWith(url, Prefix(sc)))
    ELSE <<>>

\* The tag the claim gives a URL.
ProtocolByScheme(url) ==
    CASE SchemeOf(url) = <<"r", "t", "s", "p">> -> "rtsp"
      [] SchemeOf(url) = <<"r", "t", "m", "p">> -> "rtmp"
      [] SchemeOf(url) \in {<<"h", "t", "t", "p">>, <<"h", "t", "t", "p", "s">>} -> "http"
      [] SchemeOf(url) = <<"f", "i", "l", "e">> -> "file"
      [] SchemeOf(url) = <<>> /\ (Contains(url, "/") \/ Contains(url, "\\")) -> "file"
      [] OTHER -> "undetectable"

\* C27: create_from_url infers rtsp, rtmp, http (for http and https) or file
\* (for a path) from the URL, and fails as undetectable for any other scheme.
C27_ProtocolFromScheme ==
    made.call = "from_url" => made.protocol = ProtocolByScheme(made.url)

\* What C27 says, but for https and for the URLs of other schemes.
C27_ProtocolFromKnownScheme ==
    (/\ made.call = "from_url"
     /\ SchemeOf(made.url) \in {<<"r", "t", "s", "p">>, <<"r", "t", "m", "p">>,
                               <<"h", "t", "t", "p">>, <<"f", "i", "l", "e">>, <<>>})
    => made.protocol = ProtocolByScheme(made.url)

\* C28: the retry counter is the number of reads that failed in a row, zero
\* after a read that gave a frame; and the iterator ends for failed reads
\* only when that number has reached retry_attempts.
C28_EndsAfterConsecutiveFailures ==
    /\ reader.pc # "idle" => retry_count = reads.run
    /\ (reader.pc = "ended" /\ reader.why = "retries") => reads.run = retry_attempts
    /\ reads.run <= retry_attempts

\* The reads that failed add up to retry_attempts or more, but a frame came
\* in between, and the iterator goes on.
C28_FailuresApartDoNotEnd ==
    /\ reader.pc = "sleeping"
    /\ retry_attempts >= 2
    /\ reads.failed >= retry_attempts
    /\ reads.ok > 0
    /\ reads.run < retry_attempts

\* C29: every start_detection that succeeds (the status becomes RUNNING)
\* leaves the three counters at 0 and the results queue empty, whatever they
\* held before.
C29_StartBeginsClean ==
    [][(status # "running" /\ status' = "running")
       => (/\ frame_count' = 0
           /\ processed_frame_count' = 0
           /\ error_count' = 0
           /\ results_queue' = <<>>)]_vars

\* A start has just succeeded over the counters and results of an earlier run.
C29_StartedOverLeftovers ==
    /\ last_op = "start_over"
    /\ status = "running"
    /\ counters = <<0, 0, 0>>
    /\ results_queue = <<>>

\* C30: the n-th frame a run reads and counts is passed on to the detector
\* exactly when n is a multiple of skip_frames + 1, so of every skip_frames + 1
\* frames the first skip_frames are skipped and the last one is dispatched;
\* with skip_frames = 0 every frame is.
C30_SkipCadence ==
    [][frame_count' = frame_count + 1
       => \A t \in Tasks :
            (task[t].pc = "iter" /\ task'[t] # task[t])
            => ((task'[t].pc \in {"throttle", "detect"})
                <=> (frame_count' % (skip_frames + 1) = 0))]_vars

\* Three frames read with skip_frames = 1: the second one was dispatched, the
\* first and the third were not.
C30_SkippedDispatchedSkipped ==
    /\ skip_frames = 1
    /\ frame_count = 3
    /\ processed_frame_count + error_count = 1
    /\ \A t \in Tasks : task[t].pc \notin {"throttle", "detect"}
    /\ \E t \in Tasks : task[t].fid = 2

\* C32: get_latest_result on a queue that holds several results (the step
\* that takes one result off such a queue) returns the result pushed last.
C32_LatestIsNewest ==
    [][(Len(results_queue) >= 2 /\ results_queue' = Tail(results_queue))
       => taken' = results_queue[Len(results_queue)]]_vars

\* C33: the frame loop of a connected source of stream_len frames leaves by
\* the end of the frame iterator only when all stream_len frames were read and
\* counted; the step ends the task, counts no error and leaves the status.
C33_EndOfStreamEndsLoop ==
    [][\A t \in Tasks :
         (task[t].exit # "eos" /\ task'[t].exit = "eos" /\ is_connected)
         => (/\ stream_pos = stream_len
             /\ frame_count = stream_len
             /\ task'[t].pc = "done"
             /\ UNCHANGED <<counters, status>>
             /\ status # "error")]_vars

\* A file of MaxFrames frames was read to its end: the task is done, no
\* error was counted and the status is still RUNNING.
C33_ReadToTheEnd ==
    /\ \E t \in Tasks : task[t].pc = "done" /\ task[t].exit = "eos"
    /\ is_connected
    /\ stream_len = MaxFrames
    /\ frame_count = MaxFrames
    /\ error_count = 0
    /\ status = "running"

\* C34: create_rtsp_yolo_service and create_rtmp_yolo_service, with a URL
\* and registries that give a detector and a stream provider and with nothing
\* else given, return a service in state IDLE with all five processing
\* settings.
C34_ConvenienceServiceIsBuilt ==
    (/\ built.call \in {"rtsp_yolo", "rtmp_yolo"}
     /\ built.given = [max_fps |-> DefaultMaxFps, skip |-> DefaultSkipFrames,
                       params |-> <<>>]
     /\ built.system)
    => (/\ built.out = "service"
        /\ built.status = "idle"
        /\ \A i \in DOMAIN ProcessingKeys : ProcessingKeys[i] \in DOMAIN built.settings)

\* C35: a start_detection call made with the status RUNNING returns without
\* an exception and changes neither the status, the flags, the tasks, the
\* counters nor the results queue.
C35_StartWhileRunningIsNoop ==
    [][last_op' = "start_running"
       => (/\ status = "running"
           /\ raised' = NoError
           /\ UNCHANGED <<status, is_running, is_connected, is_loaded, results_queue,
                          counters, detection_task, task, call, stream_pos>>)]_vars

\* A start call was made on a running service whose loop is live and has
\* produced a result.
C35_StartedWhileRunning ==
    /\ last_op = "start_running"
    /\ status = "running"
    /\ detection_task # 0
    /\ TaskLive(task[detection_task])
    /\ frame_count > 0
    /\ results_queue # <<>>

\* C36: a stop_detection call made with a status other than RUNNING (the
\* step of a call that returns at the guard, or that goes on to STOPPING)
\* returns without an exception and leaves the status, the running flag, the
\* tasks and the connection as they are.
C36_StopWhenNotRunningIsNoop ==
    [][(/\ status # "running"
        /\ \/ last_op' = "stop_call"
           \/ last_op' \in {"stop_ret", "stop_again"} /\ call' = call)
       => UNCHANGED <<status, is_running, is_connected, detection_task, task, call,
                      raised>>]_vars

\* A stop call returned at the guard while a start call was under way.
C36_StoppedWhileStarting ==
    /\ last_op \in {"stop_ret", "stop_again"}
    /\ status = "starting"
    /\ \E c \in Callers : call[c].pc \in {"start_loading", "start_warm_loading"}

\* C37: whenever the status is IDLE the running flag is false and no frame
\* loop task is live.
C37_IdleMeansNoLoop ==
    status = "idle" => (~is_running /\ NoLiveTask(task))

\* C38: the status changes only along idle -> starting, starting -> running,
\* starting -> error, running -> stopping, stopping -> idle, running -> error
\* and error -> starting.
C38_StatusChanges ==
    [][status' # status
       => <<status, status'>> \in
            {<<"idle", "starting">>, <<"starting", "running">>,
             <<"starting", "error">>, <<"running", "stopping">>,
             <<"stopping", "idle">>, <<"running", "error">>,
             <<"error", "starting">>}]_vars

\* A consumer is handed a result in this step: a results iterator yields, or
\* a get_latest_result call returns one.
IteratorYields(i) == iter[i].pc = "waiting" /\ iter'[i].pc = "yielded"

LatestReturnsResult == latest.pc = "waiting" /\ latest'.pc = "returned" /\ latest'.value # 0

\* C39: the results of a run are handed out in the order of their pushes and
\* each to one consumer only: whatever a consumer is handed was pushed after
\* everything handed to any consumer before (the frame ids of the pushes of a
\* run ascend), and the queue holds only results not handed out yet.
C39_EachResultOnceInOrder ==
    /\ [][/\ \A i \in Iterators :
               IteratorYields(i) => (iter'[i].last > taken /\ taken' = iter'[i].last)
          /\ LatestReturnsResult => (latest'.value > taken /\ taken' = latest'.value)]_vars
    /\ [](\A k \in DOMAIN results_queue :
             /\ results_queue[k] > taken
             /\ \A j \in 1..(k - 1) : results_queue[j] < results_queue[k])

\* Two results were in the queue; the iterator was handed the first and a
\* get_latest_result call the second.
C39_TwoConsumersServed ==
    /\ result_buffer_size = 2
    /\ \E i \in Iterators : iter[i].pc = "yielded" /\ iter[i].last = 1
    /\ latest.pc = "returned"
    /\ latest.value = 2
    /\ taken = 2
    /\ processed_frame_count >= 2

\* C40: a step in which a hook raised leaves every frame loop running
\* (unless the errors of the detector passed the threshold in that step),
\* counts no error beyond the failure of the detector, changes the status
\* only as the call that ran the hook does, and keeps the result it pushed.
C40_HookFailureIsContained ==
    [][last_op' = "hook_raised"
       => (/\ error_count' - error_count = run_failures' - run_failures
           /\ status' \in {status, "running"}
           /\ \A t \in Tasks :
                 /\ TaskLive(task[t]) /\ ~TaskLive(task'[t])
                      => (task'[t].exit = "errors" /\ run_failures' = run_failures + 1)
                 /\ (task[t].pc = "detect" /\ processed_frame_count' # processed_frame_count)
                      => (/\ results_queue' # <<>>
                          /\ results_queue'[Len(results_queue')] = task[t].fid))]_vars

\* The on_detection_complete hook raised on the first result: the loop is
\* live, no error is counted, the status is RUNNING and the result is in the
\* queue.
C40_HookRaisedLoopGoesOn ==
    /\ last_op = "hook_raised"
    /\ status = "running"
    /\ processed_frame_count = 1
    /\ error_count = 0
    /\ results_queue = <<1>>
    /\ detection_task # 0
    /\ task[detection_task].pc = "iter"

\* ------------------------------------------------- detector properties
MultiDevice == enable_multi_gpu /\ is_loaded /\ Len(gpu_devices) > 1

MaxCount == CHOOSE n \in Range([k \in DOMAIN gpu_devices |-> inference_counts[gpu_devices[k]]]) :
              \A d \in Range(gpu_devices) : inference_counts[d] <= n

MinCount == CHOOSE n \in Range([k \in DOMAIN gpu_devices |-> inference_counts[gpu_devices[k]]]) :
              \A d \in Range(gpu_devices) : inference_counts[d] >= n

\* C14: under the least-loaded policy over more than one device, the
\* inference counts of the devices never differ by more than 1.
C14_CountsBalanced ==
    (MultiDevice /\ load_balancing) => MaxCount - MinCount <= 1

\* A detect_frame call of this step that selected a device.
Selects(i) == inf[i].pc = "idle" /\ inf'[i].pc = "submitted"

\* C15: under the least-loaded policy the selected device has a minimal
\* inference count, and no device with a lower id has the same count.
C15_LeastLoadedLowestId ==
    [][\A i \in Calls :
         (Selects(i) /\ MultiDevice /\ load_balancing)
         => (/\ inf'[i].dev \in Range(gpu_devices)
             /\ \A d \in Range(gpu_devices) :
                   /\ inference_counts[inf'[i].dev] <= inference_counts[d]
                   /\ (inference_counts[d] = inference_counts[inf'[i].dev]
                          => inf'[i].dev <= d))]_vars

\* C15, without the tie rule: the selected device has a minimal count.
C15_LeastLoadedMinimal ==
    [][\A i \in Calls :
         (Selects(i) /\ MultiDevice /\ load_balancing)
         => (/\ inf'[i].dev \in Range(gpu_devices)
             /\ \A d \in Range(gpu_devices) :
                   inference_counts[inf'[i].dev] <= inference_counts[d])]_vars

\* C16: under the round-robin policy over more than one device, a call for
\* stream s selects the device at place (s mod number of devices) of the list.
C16_RoundRobinByStream ==
    [][\A i \in Calls :
         (Selects(i) /\ MultiDevice /\ ~load_balancing)
         => inf'[i].dev = gpu_devices[(inf'[i].stream % Len(gpu_devices)) + 1]]_vars

C16_WrappedStream ==
    /\ MultiDevice
    /\ ~load_balancing
    /\ \E i \in Calls :
          /\ inf[i].pc = "submitted"
          /\ inf[i].stream >= Len(gpu_devices)
          /\ inf[i].dev = gpu_devices[1]
    /\ \E i \in Calls :
          /\ inf[i].pc = "submitted"
          /\ inf[i].stream = 1
          /\ inf[i].dev = gpu_devices[2]

Executing(d) == {i \in Calls : inf[i].pc = "running" /\ inf[i].dev = d}

C17_ParallelOnTwoDevices ==
    \E d, e \in Devices : d # e /\ Executing(d) # {} /\ Executing(e) # {}

C18_BatchIsolatesFailures ==
    /\ batch.pc # "raised"
    /\ batch.pc = "returned" =>
         /\ Len(batch.results) = Len(batch.frames)
         /\ \A j \in DOMAIN batch.results :
               /\ batch.results[j].frame_id = batch.frame_ids[j]
               /\ batch.results[j].error = ~batch.oks[j]
               /\ batch.results[j].detections = (IF batch.oks[j] THEN "detected" ELSE "empty")

\* C18 for frames that have a shape: the isolation holds.
C18_BatchIsolatesImageFailures ==
    /\ (batch.pc = "raised" => \E j \in DOMAIN batch.frames : batch.frames[j] = "no_shape")
    /\ batch.pc = "returned" =>
         /\ Len(batch.results) = Len(batch.frames)
         /\ \A j \in DOMAIN batch.results :
               /\ batch.results[j].frame_id = batch.frame_ids[j]
               /\ batch.results[j].error = ~batch.oks[j]
               /\ batch.results[j].detections = (IF batch.oks[j] THEN "detected" ELSE "empty")

\* C31: while the detector stays loaded, the count of a device changes only
\* when a detect_frame call that was sent to that device ends, by exactly one
\* when the inference gave a result and not at all when it raised.
C31_CountsAreCumulative ==
    [][(is_loaded /\ is_loaded')
       => \A d \in Devices :
            LET ended == {i \in Calls : /\ enable_multi_gpu
                                        /\ inf[i].pc = "returned"
                                        /\ inf'[i].pc # "returned"
                                        /\ inf[i].dev = d}
            IN inference_counts'[d] =
                 inference_counts[d] + Cardinality({i \in ended : inf[i].ok})]_vars

\* A batch of two on a loaded multi-GPU detector: one inference gave a
\* result, the other raised, and the counts add up to one.
C31_OneCountedOneNot ==
    /\ is_loaded
    /\ enable_multi_gpu
    /\ batch.pc = "returned"
    /\ batch.oks = <<TRUE, FALSE>>
    /\ \E d \in Devices : /\ inference_counts[d] = 1
                          /\ \A e \in Devices \ {d} : inference_counts[e] = 0
====
